---- MODULE Spec2Model ----
(***************************************************************************)
(* Orchestration engine of ralfus: the Issue Record Store (upsertIssue /   *)
(* getIssue), the Work Queue (getQueue, a p-queue with a concurrency       *)
(* limit), the PR lock table (activePrs), the Linear webhook dispatcher    *)
(* and the phase jobs (planning, clarification, implementation,            *)
(* self-review, PR-comment), the two webhook routes and the classifiers    *)
(* of agent output and user replies.  Every `await` of a job is a step of  *)
(* its own: between two awaits JavaScript runs the code atomically.        *)
(***************************************************************************)
EXTENDS Integers, Sequences, FiniteSets, TLC

VARIABLES
    issues,       \* the `issues` table: issue id -> row, or NoRecord
    lastUpsert,   \* observer: the last upsertIssue call and the row it found
    env,          \* process.env.AGENT_CONCURRENCY ("unset" when not set)
    queue,        \* the `_queue` singleton: NoQueue (null) or the PQueue's state
    jobs,         \* every task handed to queue.add, in the order of the adds
    activePrs,    \* the lock table of runPrCommentJob
    comments,     \* Linear comments holding plan documents: id -> body
    branches,     \* issues whose feature branch ralfus/<identifier> exists
    pulls,        \* observer: the pull requests opened, in order
    agentRuns,    \* observer: every agent invocation, in order
    events,       \* observer: number of webhook deliveries handled so far
    requests      \* the webhook requests received: handler position, response

vars == <<issues, lastUpsert, env, queue, jobs, activePrs, comments, branches, pulls,
         agentRuns, events, requests>>

NULL == "null"
\* getIssue's null: no row for the id
NoRecord ==
    [organizationId |-> NULL, state |-> "absent", repoPath |-> NULL,
     agentSessionId |-> NULL, planCommentId |-> NULL, prUrl |-> NULL]
NoCall == [call |-> NoRecord, before |-> NoRecord]

\* ------------------------------------------------------------------ bounds
\* tasks handed to the queue when the queue is exercised on its own
MaxQueueTasks == 5
\* GitHub webhook deliveries that trigger runPrCommentJob
MaxPrEvents == 3
\* steps of a plan document
MaxSteps == 3
MaxEvents == 3
MaxPlanSteps == 1
\* webhook deliveries in the specification of planning and clarification alone
MaxDeliveries == 2
\* webhook requests in the specification of the intake
MaxRequests == 2
\* lines of plain text, and blank lines at the end, of an agent output
MaxFill == 21
MaxBlank == 2
\* tokens of a reply in the specification of the reply's classification
MaxReplyLen == 3
\* every event adds one job, and an approval adds the implementation job
MaxJobs == 2 * MaxEvents

\* --------------------------------------------------------- Issue Record Store

\* export type IssueState
IssueState ==
    {"planning", "awaiting_clarification", "awaiting_approval",
     "in_progress", "reviewing", "implemented"}

OptionalFields == {"repoPath", "agentSessionId", "planCommentId", "prUrl"}

\* SQL COALESCE(a, b): the first argument that is not NULL
COALESCE_Overwrite(a, b) == a
COALESCE(a, b) == IF a # NULL THEN a ELSE b

\* The row upsertIssue leaves for `call` when the table holds `row` (NoRecord:
\* the INSERT branch; otherwise ON CONFLICT (id) DO UPDATE).
UpsertRow_Replace(row, call) == call
UpsertRow(row, call) ==
    IF row = NoRecord
    THEN call
    ELSE [organizationId |-> row.organizationId,
          state          |-> call.state,
          repoPath       |-> COALESCE(call.repoPath, row.repoPath),
          agentSessionId |-> COALESCE(call.agentSessionId, row.agentSessionId),
          planCommentId  |-> COALESCE(call.planCommentId, row.planCommentId),
          prUrl          |-> COALESCE(call.prUrl, row.prUrl)]

\* upsertIssue(id, organizationId, state, repoPath?, agentSessionId?,
\* planCommentId?, prUrl?): an omitted argument is `?? null`.
Call(org, st, rp, sess, plan, pr) ==
    [organizationId |-> org, state |-> st, repoPath |-> rp,
     agentSessionId |-> sess, planCommentId |-> plan, prUrl |-> pr]

upsertIssue(tbl, id, call) == [tbl EXCEPT ![id] = UpsertRow(tbl[id], call)]

\* getIssue(id): the row, or null (NoRecord) when there is none
getIssue(tbl, id) == tbl[id]

Issues == {"i1", "i2"}
Orgs == {"org1"}

\* The calls the store is exercised with on its own.
UpsertStates == {"planning", "awaiting_approval", "implemented"}
UpsertCalls ==
    {Call(o, s, rp, se, pl, pr) :
        o \in Orgs, s \in UpsertStates, rp \in {NULL, "/work/a", "/work/b"},
        se \in {NULL, "s1", "s2"}, pl \in {NULL, "c1"}, pr \in {NULL, "pr1"}}

\* ------------------------------------------------------------- Work Queue

\* let _queue: PQueue | null = null
NoQueue == [created |-> FALSE, concurrency |-> 0, waiting |-> <<>>, pending |-> 0]

\* parseInt(s, 10) of the values AGENT_CONCURRENCY is given
parseInt(s) ==
    CASE s = "1" -> 1 [] s = "2" -> 2 [] s = "3" -> 3 [] s = "4" -> 4
      [] s = "5" -> 5 [] s = "6" -> 6 [] s = "7" -> 7 [] s = "8" -> 8
      [] s = "9" -> 9 [] s = "10" -> 10

\* getQueue(): the singleton, created on the first call with
\* concurrency = parseInt(process.env.AGENT_CONCURRENCY ?? "2", 10)
getQueue_Default3(q, e) ==
    IF q.created THEN q
    ELSE [created |-> TRUE,
          concurrency |-> parseInt(IF e = "unset" THEN "3" ELSE e),
          waiting |-> <<>>, pending |-> 0]
getQueue(q, e) ==
    IF q.created THEN q
    ELSE [created |-> TRUE,
          concurrency |-> parseInt(IF e = "unset" THEN "2" ELSE e),
          waiting |-> <<>>, pending |-> 0]

\* A task handed to queue.add: the closure's job, its arguments and locals.
NoPr == <<>>
NewJob(kind, issue, pr, msg) ==
    [kind |-> kind, issue |-> issue, pr |-> pr, msg |-> msg, pc |-> "queued",
     sess |-> NULL, plan |-> NULL, body |-> <<>>, steps |-> <<>>,
     checked |-> <<>>, i |-> 0, created |-> FALSE, threw |-> FALSE,
     replyFailed |-> FALSE, posted |-> {}, needsClarification |-> FALSE,
     prUrl |-> NULL]

\* prKey(owner, repo, prNumber)
prKey(pr) == pr

\* The synchronous head of a task: what runs, when the queue calls the task,
\* up to its first await.  runPrCommentJob tests and takes the PR lock there;
\* the other jobs go straight to `await getIssue`; an opaque task just runs.
StartedJob(job, locks) ==
    CASE job.kind = "prComment" ->
            IF prKey(job.pr) \in locks
            THEN [job EXCEPT !.pc = "busyReply"]
            ELSE [job EXCEPT !.pc = "postStarted"]
      [] job.kind = "task" -> [job EXCEPT !.pc = "running"]
      [] OTHER -> [job EXCEPT !.pc = "getIssue"]

StartedLocks_NoAdd(job, locks) == locks
StartedLocks(job, locks) ==
    IF job.kind = "prComment" /\ prKey(job.pr) \notin locks
    THEN locks \cup {prKey(job.pr)}
    ELSE locks

\* PQueue's tryToStartAnother: when a task waits and fewer than `concurrency`
\* are pending, the head of the FIFO is dequeued and called.
\* st = [queue, jobs, activePrs]
tryToStartAnother_Lifo(st) ==
    IF st.queue.waiting # <<>> /\ st.queue.pending < st.queue.concurrency
    THEN LET n == Len(st.queue.waiting)
             t == st.queue.waiting[n]
         IN [queue |-> [st.queue EXCEPT !.waiting = SubSeq(@, 1, n - 1), !.pending = @ + 1],
             jobs |-> [st.jobs EXCEPT ![t] = StartedJob(@, st.activePrs)],
             activePrs |-> StartedLocks(st.jobs[t], st.activePrs)]
    ELSE st
tryToStartAnother(st) ==
    IF st.queue.waiting # <<>> /\ st.queue.pending < st.queue.concurrency
    THEN LET t == Head(st.queue.waiting)
         IN [queue |-> [st.queue EXCEPT !.waiting = Tail(@), !.pending = @ + 1],
             jobs |-> [st.jobs EXCEPT ![t] = StartedJob(@, st.activePrs)],
             activePrs |-> StartedLocks(st.jobs[t], st.activePrs)]
    ELSE st

\* getQueue().add(task): enqueue, then tryToStartAnother
QueueAdd(q, js, locks, e, job) ==
    LET q1 == getQueue(q, e)
        id == Len(js) + 1
    IN tryToStartAnother(
           [queue |-> [q1 EXCEPT !.waiting = Append(@, id)],
            jobs |-> Append(js, job),
            activePrs |-> locks])

\* A task's promise settles (resolved or rejected alike): PQueue's next()
\* decrements pending and calls tryToStartAnother.
QueueNext_StopOnReject(q, js, locks, t, final) ==
    IF final = "failed"
    THEN [queue |-> [q EXCEPT !.pending = @ - 1],
          jobs |-> [js EXCEPT ![t].pc = final], activePrs |-> locks]
    ELSE tryToStartAnother(
           [queue |-> [q EXCEPT !.pending = @ - 1],
            jobs |-> [js EXCEPT ![t].pc = final],
            activePrs |-> locks])
QueueNext(q, js, locks, t, final) ==
    tryToStartAnother(
        [queue |-> [q EXCEPT !.pending = @ - 1],
         jobs |-> [js EXCEPT ![t].pc = final],
         activePrs |-> locks])

Running(js) == {t \in 1..Len(js) : js[t].pc \notin {"queued", "done", "failed"}}
Unfinished(js) == {t \in 1..Len(js) : js[t].pc \notin {"done", "failed"}}

InitCommon ==
    /\ issues = [i \in Issues |-> NoRecord]
    /\ lastUpsert = NoCall
    /\ env = "unset"
    /\ queue = NoQueue
    /\ jobs = <<>>
    /\ activePrs = {}
    /\ comments = <<>>
    /\ branches = {}
    /\ pulls = <<>>
    /\ agentRuns = <<>>
    /\ events = 0
    /\ requests = <<>>

\* queue.add of an opaque long-running task
Enqueue ==
    /\ Len(jobs) < MaxQueueTasks
    /\ LET st == QueueAdd(queue, jobs, activePrs, env, NewJob("task", "", NoPr, <<>>))
       IN /\ queue' = st.queue
          /\ jobs' = st.jobs
          /\ activePrs' = st.activePrs
    /\ UNCHANGED <<issues, lastUpsert, env, comments, branches, pulls, agentRuns, events,
                   requests>>

\* a running opaque task resolves ("done") or rejects ("failed")
TaskSettle(t) ==
    /\ t \in 1..Len(jobs)
    /\ jobs[t].kind = "task"
    /\ jobs[t].pc = "running"
    /\ \E final \in {"done", "failed"} :
         LET st == QueueNext(queue, jobs, activePrs, t, final)
         IN /\ queue' = st.queue
            /\ jobs' = st.jobs
            /\ activePrs' = st.activePrs
    /\ UNCHANGED <<issues, lastUpsert, env, comments, branches, pulls, agentRuns, events,
                   requests>>

InitQueue ==
    /\ issues = [i \in Issues |-> NoRecord]
    /\ lastUpsert = NoCall
    /\ env \in {"unset", "1", "2", "3"}
    /\ queue = NoQueue
    /\ jobs = <<>>
    /\ activePrs = {}
    /\ comments = <<>>
    /\ branches = {}
    /\ pulls = <<>>
    /\ agentRuns = <<>>
    /\ events = 0
    /\ requests = <<>>

NextQueue == Enqueue \/ \E t \in 1..MaxQueueTasks : TaskSettle(t)
SpecQueue == InitQueue /\ [][NextQueue]_vars
\* each running task eventually finishes
SpecQueueFair ==
    SpecQueue /\ \A t \in 1..MaxQueueTasks : WF_vars(TaskSettle(t))

\* One upsertIssue call on issue i1.
UpsertCall ==
    \E call \in UpsertCalls :
        /\ lastUpsert' = [call |-> call, before |-> issues["i1"]]
        /\ issues' = upsertIssue(issues, "i1", call)
        /\ UNCHANGED <<env, queue, jobs, activePrs, comments, branches, pulls, agentRuns, events,
                   requests>>

InitUpsert == InitCommon
NextUpsert == UpsertCall
SpecUpsert == InitUpsert /\ [][NextUpsert]_vars

\* ------------------------------------------------------------- plan documents
\* A document is a sequence of lines (split("\n")), a line a sequence of
\* tokens: the two checkbox markers, numerals, ":", " " and words.

PEND == "- [ ] Step "
DONE == "- [x] Step "
Numerals == {"1", "2", "3", "4", "5", "6", "7", "8", "9", "10"}

\* `${stepNumber}`
NumberToString(n) ==
    CASE n = 1 -> "1" [] n = 2 -> "2" [] n = 3 -> "3" [] n = 4 -> "4"
      [] n = 5 -> "5" [] n = 6 -> "6" [] n = 7 -> "7" [] n = 8 -> "8"
      [] n = 9 -> "9" [] n = 10 -> "10"

\* String.prototype.trim on a token sequence
RECURSIVE TrimLeft(_)
TrimLeft(ts) == IF ts # <<>> /\ Head(ts) = " " THEN TrimLeft(Tail(ts)) ELSE ts
RECURSIVE TrimRight(_)
TrimRight(ts) ==
    IF ts # <<>> /\ ts[Len(ts)] = " " THEN TrimRight(SubSeq(ts, 1, Len(ts) - 1)) ELSE ts
Trim(ts) == TrimRight(TrimLeft(ts))

\* line.match(/^- \[.\] Step (\d+): (.+)$/) with the given checkbox marker
MatchesStep(line, marker) ==
    /\ Len(line) >= 5
    /\ line[1] = marker
    /\ line[2] \in Numerals
    /\ line[3] = ":"
    /\ line[4] = " "

RECURSIVE ParseFrom(_, _, _)
ParseFrom(body, marker, k) ==
    IF k > Len(body) THEN <<>>
    ELSE (IF MatchesStep(body[k], marker)
          THEN <<[stepNumber |-> parseInt(body[k][2]),
                  text |-> Trim(SubSeq(body[k], 5, Len(body[k])))]>>
          ELSE <<>>) \o ParseFrom(body, marker, k + 1)

\* parsePlanSteps: the unchecked steps, in document order
parsePlanSteps_All(body) == ParseFrom(body, PEND, 1) \o ParseFrom(body, DONE, 1)
parsePlanSteps(body) == ParseFrom(body, PEND, 1)
\* parseCheckedSteps: the checked steps, in document order
parseCheckedSteps(body) == ParseFrom(body, DONE, 1)

\* the places (line, offset) where the token sequence pat occurs in body
Occurrences(body, pat) ==
    {lo \in UNION {{<<l, o>> : o \in 1..Len(body[l])} : l \in 1..Len(body)} :
        /\ lo[2] + Len(pat) - 1 <= Len(body[lo[1]])
        /\ SubSeq(body[lo[1]], lo[2], lo[2] + Len(pat) - 1) = pat}

\* body.replace(`- [ ] Step ${n}:`, `- [x] Step ${n}:`): the first literal
\* occurrence, wherever it is; no occurrence leaves the body as it is
MarkDone(body, n) ==
    LET occ == Occurrences(body, <<PEND, NumberToString(n), ":">>)
    IN IF occ = {} THEN body
       ELSE LET first == CHOOSE lo \in occ :
                    \A other \in occ :
                        \/ lo[1] < other[1]
                        \/ (lo[1] = other[1] /\ lo[2] <= other[2])
            IN [body EXCEPT ![first[1]][first[2]] = DONE]

\* Plan documents as postPlanAndAwaitApproval writes them
\* (`## Implementation Plan`, a blank line, one line per step), with each of
\* the steps 1..k pending or done.
StepWord(j) == CASE j = 1 -> "add" [] j = 2 -> "wire" [] j = 3 -> "test" [] OTHER -> "ship"
PlanDoc(k, marks) ==
    <<(<<"## Implementation Plan">>), <<>>>> \o
    [j \in 1..k |-> <<marks[j], NumberToString(j), ":", " ", StepWord(j)>>]
PlanDocs ==
    UNION {{PlanDoc(k, marks) : marks \in [1..k -> {PEND, DONE}]} : k \in 0..MaxSteps}

\* ------------------------------------------------- PR-comment job, lock table

Prs == {<<"acme", "app", 1>>, <<"acme", "app", 2>>}

\* The awaits of runPrCommentJob's try block, in order.
PrChain ==
    <<"postStarted", "getPrBranch", "ensureRepoCheckedOut", "createBranch",
      "gitPull", "getGitDiff", "runAgentMode", "revParseBefore",
      "commitAndPush", "revParseAfter", "postDone">>
\* awaits whose rejection is caught in place (.catch): the job goes on
PrNonFatal == {"postStarted", "gitPull"}
PrHolding == {PrChain[k] : k \in 1..Len(PrChain)} \cup {"errorReply"}

PrIndex(pc) == CHOOSE k \in 1..Len(PrChain) : PrChain[k] = pc

\* finally { activePrs.delete(key) }: runs when the try block ends and when
\* the catch block ends
PrFinally_OnSuccessOnly(locks, key, threw) == IF threw THEN locks ELSE locks \ {key}
PrFinally_ClearAll(locks, key, threw) == {}
PrFinally(locks, key, threw) == locks \ {key}

Holders(js, key) ==
    {t \in 1..Len(js) :
        js[t].kind = "prComment" /\ prKey(js[t].pr) = key /\ js[t].pc \in PrHolding}

\* githubWebhookRouter.post: a comment that mentions @ralfus on a PR
\* enqueues runPrCommentJob inside a try/catch closure.
GithubWebhook(pr) ==
    /\ events < MaxPrEvents
    /\ events' = events + 1
    /\ LET st == QueueAdd(queue, jobs, activePrs, env, NewJob("prComment", "", pr, <<>>))
       IN /\ queue' = st.queue
          /\ jobs' = st.jobs
          /\ activePrs' = st.activePrs
    /\ UNCHANGED <<issues, lastUpsert, env, comments, branches, pulls, agentRuns,
                   requests>>

PrBusyReply_Releases(t) ==
    /\ t \in 1..Len(jobs)
    /\ jobs[t].kind = "prComment"
    /\ jobs[t].pc = "busyReply"
    /\ \E ok \in BOOLEAN :
         LET st == QueueNext(queue, [jobs EXCEPT ![t].replyFailed = ~ok],
                             PrFinally(activePrs, prKey(jobs[t].pr), FALSE), t, "done")
         IN /\ queue' = st.queue
            /\ jobs' = st.jobs
            /\ activePrs' = st.activePrs
    /\ UNCHANGED <<issues, lastUpsert, env, comments, branches, pulls, agentRuns, events,
                   requests>>
\* the busy path: await postReply(busy).catch(...); return
PrBusyReply(t) ==
    /\ t \in 1..Len(jobs)
    /\ jobs[t].kind = "prComment"
    /\ jobs[t].pc = "busyReply"
    /\ \E ok \in BOOLEAN :
         LET st == QueueNext(queue, [jobs EXCEPT ![t].replyFailed = ~ok],
                             activePrs, t, "done")
         IN /\ queue' = st.queue
            /\ jobs' = st.jobs
            /\ activePrs' = st.activePrs
    /\ UNCHANGED <<issues, lastUpsert, env, comments, branches, pulls, agentRuns, events,
                   requests>>

\* one await of the try block resolves and the job runs to its next await
PrStepOk(t) ==
    /\ t \in 1..Len(jobs)
    /\ jobs[t].kind = "prComment"
    /\ jobs[t].pc \in PrHolding \ {"errorReply", "postDone"}
    /\ LET k == PrIndex(jobs[t].pc)
       IN /\ jobs' = [jobs EXCEPT ![t].pc = PrChain[k + 1]]
          /\ agentRuns' =
               IF PrChain[k + 1] = "runAgentMode"
               THEN Append(agentRuns, [job |-> t, mode |-> "write", step |-> 0])
               ELSE agentRuns
    /\ UNCHANGED <<issues, lastUpsert, env, queue, activePrs, comments, branches, pulls, events,
                   requests>>

\* an await whose rejection is caught in place rejects: the job goes on
PrStepCaught(t) ==
    /\ t \in 1..Len(jobs)
    /\ jobs[t].kind = "prComment"
    /\ jobs[t].pc \in PrNonFatal
    /\ jobs' = [jobs EXCEPT ![t].pc = PrChain[PrIndex(jobs[t].pc) + 1]]
    /\ UNCHANGED <<issues, lastUpsert, env, queue, activePrs, comments, branches, pulls, agentRuns, events,
                   requests>>

\* an await of the try block rejects: catch (err) { await postReply(error) }
PrStepThrows(t) ==
    /\ t \in 1..Len(jobs)
    /\ jobs[t].kind = "prComment"
    /\ jobs[t].pc \in PrHolding \ ({"errorReply"} \cup PrNonFatal)
    /\ jobs' = [jobs EXCEPT ![t].pc = "errorReply", ![t].threw = TRUE]
    /\ UNCHANGED <<issues, lastUpsert, env, queue, activePrs, comments, branches, pulls, agentRuns, events,
                   requests>>

\* the last reply of the try block is posted: finally, and the task is over
PrDone(t) ==
    /\ t \in 1..Len(jobs)
    /\ jobs[t].kind = "prComment"
    /\ jobs[t].pc = "postDone"
    /\ LET st == QueueNext(queue, jobs,
                           PrFinally(activePrs, prKey(jobs[t].pr), FALSE), t, "done")
       IN /\ queue' = st.queue
          /\ jobs' = st.jobs
          /\ activePrs' = st.activePrs
    /\ UNCHANGED <<issues, lastUpsert, env, comments, branches, pulls, agentRuns, events,
                   requests>>

\* the error reply is posted, or fails and is caught (.catch): finally
PrErrorReply(t) ==
    /\ t \in 1..Len(jobs)
    /\ jobs[t].kind = "prComment"
    /\ jobs[t].pc = "errorReply"
    /\ \E ok \in BOOLEAN :
         LET st == QueueNext(queue, [jobs EXCEPT ![t].replyFailed = ~ok],
                             PrFinally(activePrs, prKey(jobs[t].pr), TRUE), t, "done")
         IN /\ queue' = st.queue
            /\ jobs' = st.jobs
            /\ activePrs' = st.activePrs
    /\ UNCHANGED <<issues, lastUpsert, env, comments, branches, pulls, agentRuns, events,
                   requests>>

InitPr ==
    /\ issues = [i \in Issues |-> NoRecord]
    /\ lastUpsert = NoCall
    /\ env \in {"unset", "1", "3"}
    /\ queue = NoQueue
    /\ jobs = <<>>
    /\ activePrs = {}
    /\ comments = <<>>
    /\ branches = {}
    /\ pulls = <<>>
    /\ agentRuns = <<>>
    /\ events = 0
    /\ requests = <<>>

NextPr ==
    \/ \E pr \in Prs : GithubWebhook(pr)
    \/ \E t \in 1..MaxPrEvents :
         \/ PrBusyReply(t)
         \/ PrStepOk(t)
         \/ PrStepCaught(t)
         \/ PrStepThrows(t)
         \/ PrDone(t)
         \/ PrErrorReply(t)
SpecPr == InitPr /\ [][NextPr]_vars


\* ----------------------------------------------------------- phase jobs, common

\* ensureRepoCheckedOut(issueId): path.join(workDir, issueId)
RepoPath(i) == CASE i = "i1" -> "/work/i1" [] i = "i2" -> "/work/i2"

\* ids of the Linear comments that hold plan documents, in order of creation
CommentId(k) == CASE k = 1 -> "c1" [] k = 2 -> "c2" [] k = 3 -> "c3" [] OTHER -> "c4"
CommentIndex(id) == CHOOSE k \in 1..4 : CommentId(k) = id

IsJob(t, kind, pc) ==
    /\ t \in 1..Len(jobs)
    /\ jobs[t].kind = kind
    /\ jobs[t].pc = pc

\* The task closure is `try { await runXJob(...) } catch (err) { log }`: how
\* the closure's promise settles when the job has returned or thrown
TaskClosure_NoCatch(threw) == IF threw THEN "failed" ELSE "done"
TaskClosure(threw) == "done"

\* When the job returns or throws, the task settles and the queue's next()
\* runs.  js: the jobs with job t's last changes made.
JobEnds(t, js) ==
    LET st == QueueNext(queue, js, activePrs, t, TaskClosure(js[t].threw))
    IN /\ queue' = st.queue
       /\ jobs' = st.jobs
       /\ activePrs' = st.activePrs

\* awaits of the phase jobs that are not inside a try block of the job: a
\* rejection leaves the job and is caught by the task closure
Unguarded ==
    [planning |->
        {"getIssue", "fetchIssue", "postCheckoutFailed", "upsertPlanning",
         "postPlanFailed", "postDraft", "upsertAwaitingClarification",
         "postPlanComment", "upsertAwaitingApproval", "postPlanActivity"},
     clarification |->
        {"getIssue", "fetchIssue", "checkout", "postApproved", "upsertInProgress",
         "upsertClarifying", "postPlanFailed", "postDraft",
         "upsertAwaitingClarification", "postPlanComment",
         "upsertAwaitingApproval", "postPlanActivity"},
     implementation |->
        {"getIssue", "fetchIssue", "fetchComment", "postNoSteps", "checkout",
         "createBranch", "updateStatusInProgress", "postBranch", "postStepStart",
         "runAgentMode", "commitAndPush", "updateComment", "postStepDone",
         "createPullRequest", "updateStatusInReview", "postPrReady",
         "upsertImplemented"},
     codeReview |->
        {"getIssue", "postReviewStarting", "fetchIssue", "getGitDiff",
         "revParseBefore", "runAgentMode", "commitAndPush", "revParseAfter",
         "postReviewResult", "updateStatusInReview", "postPrAnnounce",
         "postComment", "upsertImplemented"}]

\* an await outside every try block rejects
JobThrows(t) ==
    /\ t \in 1..Len(jobs)
    /\ jobs[t].kind \in DOMAIN Unguarded
    /\ jobs[t].pc \in Unguarded[jobs[t].kind]
    /\ JobEnds(t, [jobs EXCEPT ![t].threw = TRUE])
    /\ UNCHANGED <<issues, lastUpsert, env, comments, branches, pulls, agentRuns, events,
                   requests>>

\* --------------------------------------------------------- runImplementationJob

\* 1. const record = await getIssue(issueId), and the required fields
ImplGetIssue_NoPlanCheck(t) ==
    /\ IsJob(t, "implementation", "getIssue")
    /\ LET record == getIssue(issues, jobs[t].issue)
       IN IF \/ record = NoRecord
             \/ record.agentSessionId = NULL
          THEN JobEnds(t, [jobs EXCEPT ![t].threw = TRUE])
          ELSE /\ jobs' = [jobs EXCEPT ![t].pc = "fetchIssue",
                                       ![t].sess = record.agentSessionId,
                                       ![t].plan = record.planCommentId]
               /\ UNCHANGED <<queue, activePrs>>
    /\ UNCHANGED <<issues, lastUpsert, env, comments, branches, pulls, agentRuns, events,
                   requests>>
ImplGetIssue(t) ==
    /\ IsJob(t, "implementation", "getIssue")
    /\ LET record == getIssue(issues, jobs[t].issue)
       IN IF \/ record = NoRecord
             \/ record.agentSessionId = NULL
             \/ record.planCommentId = NULL
          THEN JobEnds(t, [jobs EXCEPT ![t].threw = TRUE])
          ELSE /\ jobs' = [jobs EXCEPT ![t].pc = "fetchIssue",
                                       ![t].sess = record.agentSessionId,
                                       ![t].plan = record.planCommentId]
               /\ UNCHANGED <<queue, activePrs>>
    /\ UNCHANGED <<issues, lastUpsert, env, comments, branches, pulls, agentRuns, events,
                   requests>>

\* 2. fetchComment resolves; the steps are parsed
ImplFetchComment_NoEmptyCheck(t) ==
    /\ IsJob(t, "implementation", "fetchComment")
    /\ LET body == comments[CommentIndex(jobs[t].plan)]
       IN jobs' = [jobs EXCEPT
                     ![t].body = body, ![t].steps = parsePlanSteps(body),
                     ![t].checked = parseCheckedSteps(body), ![t].pc = "checkout"]
    /\ UNCHANGED <<issues, lastUpsert, env, queue, activePrs, comments, branches, pulls,
                   agentRuns, events, requests>>
ImplFetchComment(t) ==
    /\ IsJob(t, "implementation", "fetchComment")
    /\ LET body == comments[CommentIndex(jobs[t].plan)]
           steps == parsePlanSteps(body)
           checkedSteps == parseCheckedSteps(body)
       IN jobs' = [jobs EXCEPT
                     ![t].body = body, ![t].steps = steps, ![t].checked = checkedSteps,
                     ![t].pc = IF Len(steps) = 0 /\ Len(checkedSteps) = 0
                               THEN "postNoSteps" ELSE "checkout"]
    /\ UNCHANGED <<issues, lastUpsert, env, queue, activePrs, comments, branches, pulls,
                   agentRuns, events, requests>>

\* the "no unchecked steps" message is posted; return
ImplPostNoSteps(t) ==
    /\ IsJob(t, "implementation", "postNoSteps")
    /\ JobEnds(t, [jobs EXCEPT ![t].posted = @ \cup {"noSteps"}])
    /\ UNCHANGED <<issues, lastUpsert, env, comments, branches, pulls, agentRuns, events,
                   requests>>

\* 4. createBranch: switches to the branch when it exists (locally or on the
\* remote) and returns false, otherwise creates it and returns true
ImplCreateBranch(t) ==
    /\ IsJob(t, "implementation", "createBranch")
    /\ jobs' = [jobs EXCEPT ![t].created = jobs[t].issue \notin branches,
                            ![t].pc = "updateStatusInProgress"]
    /\ branches' = branches \cup {jobs[t].issue}
    /\ UNCHANGED <<issues, lastUpsert, env, queue, activePrs, comments, pulls,
                   agentRuns, events, requests>>

\* 5. updateIssueStatus resolves; the branch message is built: the resume
\* message reads steps[0].stepNumber, a TypeError when no step is pending
ImplUpdateStatus(t) ==
    /\ IsJob(t, "implementation", "updateStatusInProgress")
    /\ IF ~jobs[t].created /\ Len(jobs[t].steps) = 0
       THEN JobEnds(t, [jobs EXCEPT ![t].threw = TRUE])
       ELSE /\ jobs' = [jobs EXCEPT ![t].pc = "postBranch"]
            /\ UNCHANGED <<queue, activePrs>>
    /\ UNCHANGED <<issues, lastUpsert, env, comments, branches, pulls, agentRuns, events,
                   requests>>

\* the pc after the loop body's last await, or after the branch message
ImplLoop(job, i) == IF i <= Len(job.steps) THEN "postStepStart" ELSE "createPullRequest"

\* awaits that only lead on to the next await
ImplAdvance(t) ==
    /\ t \in 1..Len(jobs)
    /\ jobs[t].kind = "implementation"
    /\ jobs[t].pc \in {"fetchIssue", "checkout", "postBranch", "runAgentMode",
                       "postStepDone", "updateStatusInReview", "postPrReady"}
    /\ LET job == jobs[t]
       IN jobs' = [jobs EXCEPT ![t] =
            CASE job.pc = "fetchIssue" -> [job EXCEPT !.pc = "fetchComment"]
              [] job.pc = "checkout" -> [job EXCEPT !.pc = "createBranch"]
              [] job.pc = "postBranch" -> [job EXCEPT !.i = 1, !.pc = ImplLoop(job, 1)]
              [] job.pc = "runAgentMode" -> [job EXCEPT !.pc = "commitAndPush"]
              [] job.pc = "postStepDone" ->
                   [job EXCEPT !.i = job.i + 1, !.pc = ImplLoop(job, job.i + 1)]
              [] job.pc = "updateStatusInReview" -> [job EXCEPT !.pc = "postPrReady"]
              [] job.pc = "postPrReady" -> [job EXCEPT !.pc = "upsertImplemented"]]
    /\ UNCHANGED <<issues, lastUpsert, env, queue, activePrs, comments, branches, pulls,
                   agentRuns, events, requests>>

\* the "dropping in on step" message is posted; runAgentMode is called for
\* steps[i]
ImplRunAgent(t) ==
    /\ IsJob(t, "implementation", "postStepStart")
    /\ jobs' = [jobs EXCEPT ![t].pc = "runAgentMode"]
    /\ agentRuns' = Append(agentRuns,
         [job |-> t, mode |-> "write", step |-> jobs[t].steps[jobs[t].i].stepNumber])
    /\ UNCHANGED <<issues, lastUpsert, env, queue, activePrs, comments, branches, pulls,
                   events, requests>>

\* commitAndPush resolves, or rejects with "nothing to commit" (caught): the
\* step is checked off in the job's copy of the body; updateComment is called
ImplCommit(t) ==
    /\ IsJob(t, "implementation", "commitAndPush")
    /\ jobs' = [jobs EXCEPT
         ![t].body = MarkDone(@, jobs[t].steps[jobs[t].i].stepNumber),
         ![t].pc = "updateComment"]
    /\ UNCHANGED <<issues, lastUpsert, env, queue, activePrs, comments, branches, pulls,
                   agentRuns, events, requests>>

\* updateComment: the Linear comment gets the job's copy of the body
ImplUpdateComment(t) ==
    /\ IsJob(t, "implementation", "updateComment")
    /\ comments' = [comments EXCEPT ![CommentIndex(jobs[t].plan)] = jobs[t].body]
    /\ jobs' = [jobs EXCEPT ![t].pc = "postStepDone"]
    /\ UNCHANGED <<issues, lastUpsert, env, queue, activePrs, branches, pulls,
                   agentRuns, events, requests>>

\* 7. createPullRequest with the implementation summary
ImplCreatePullRequest(t) ==
    /\ IsJob(t, "implementation", "createPullRequest")
    /\ LET allSteps == IF Len(jobs[t].steps) > 0 THEN jobs[t].steps ELSE jobs[t].checked
       IN pulls' = Append(pulls,
            [job |-> t, issue |-> jobs[t].issue,
             summary |-> [k \in 1..Len(allSteps) |-> allSteps[k].text]])
    /\ jobs' = [jobs EXCEPT ![t].pc = "updateStatusInReview"]
    /\ UNCHANGED <<issues, lastUpsert, env, queue, activePrs, comments, branches,
                   agentRuns, events, requests>>

\* 10. await upsertIssue(issueId, orgId, "implemented", repoPath)
ImplUpsertImplemented(t) ==
    /\ IsJob(t, "implementation", "upsertImplemented")
    /\ issues' = upsertIssue(issues, jobs[t].issue,
                     Call("org1", "implemented", RepoPath(jobs[t].issue), NULL, NULL, NULL))
    /\ JobEnds(t, jobs)
    /\ UNCHANGED <<lastUpsert, env, comments, branches, pulls, agentRuns, events,
                   requests>>

ImplStep(t) ==
    \/ ImplGetIssue(t)
    \/ ImplFetchComment(t)
    \/ ImplPostNoSteps(t)
    \/ ImplCreateBranch(t)
    \/ ImplUpdateStatus(t)
    \/ ImplAdvance(t)
    \/ ImplRunAgent(t)
    \/ ImplCommit(t)
    \/ ImplUpdateComment(t)
    \/ ImplCreatePullRequest(t)
    \/ ImplUpsertImplemented(t)

\* Implementation alone: the issue has been approved (state in_progress, plan
\* comment c1, session s1), its plan document has each step pending or done,
\* the feature branch exists or not, and the Implementation job has just been
\* handed to the queue.
InitImpl ==
    /\ issues = [i \in Issues |->
                   IF i = "i1"
                   THEN Call("org1", "in_progress", RepoPath("i1"), "s1", CommentId(1), NULL)
                   ELSE NoRecord]
    /\ lastUpsert = NoCall
    /\ env = "unset"
    /\ \E doc \in PlanDocs : comments = <<doc>>
    /\ branches \in {{}, {"i1"}}
    /\ pulls = <<>>
    /\ LET st == QueueAdd(NoQueue, <<>>, {}, "unset", NewJob("implementation", "i1", NoPr, <<>>))
       IN /\ queue = st.queue
          /\ jobs = st.jobs
          /\ activePrs = st.activePrs
    /\ agentRuns = <<>>
    /\ events = 0
    /\ requests = <<>>

NextImpl == ImplStep(1) \/ JobThrows(1)
SpecImpl == InitImpl /\ [][NextImpl]_vars

\* ------------------------------------------------- planning and clarification

\* the words and two-word phrases of isApproval's pattern, lower-cased (/i);
\* \s* lets the two words of a phrase also stand together as one
ApprovalWords ==
    {"approve", "approved", "lgtm", "proceed", "start", "yes", "ok", "okay",
     "confirm", "confirmed", "lookgood", "looksgood", "goahead", "shipit",
     "soundgood", "soundsgood"}
ApprovalPhrases ==
    {<<"look", "good">>, <<"looks", "good">>, <<"go", "ahead">>, <<"ship", "it">>,
     <<"sound", "good">>, <<"sounds", "good">>}
Lower(w) ==
    CASE w = "LGTM" -> "lgtm" [] w = "Approved" -> "approved"
      [] w = "Clarifying" -> "clarifying" [] w = "Questions" -> "questions"
      [] w = "Okay" -> "okay"
      [] OTHER -> w

\* isApproval(text): text is a sequence of words
isApproval_Never(text) == FALSE
isApproval_CaseSensitive(text) ==
    \E k \in 1..Len(text) :
        \/ text[k] \in ApprovalWords
        \/ /\ k < Len(text)
           /\ <<text[k], text[k + 1]>> \in ApprovalPhrases
isApproval(text) ==
    \E k \in 1..Len(text) :
        \/ Lower(text[k]) \in ApprovalWords
        \/ /\ k < Len(text)
           /\ <<Lower(text[k]), Lower(text[k + 1])>> \in ApprovalPhrases

\* the words of a document, line after line
RECURSIVE Words(_, _)
Words(body, k) ==
    IF k > Len(body) THEN <<>>
    ELSE SelectSeq(body[k], LAMBDA w : w \notin {" ", ":", ".", PEND, DONE} \cup Numerals)
             \o Words(body, k + 1)

\* messageToCheck = userMessage?.trim() || last comment body || ""
MessageToCheck(userMessage, cs) ==
    IF Trim(userMessage) # <<>> THEN Trim(userMessage)
    ELSE IF Len(cs) > 0 THEN Words(cs[Len(cs)], 1) ELSE <<>>

\* planTextToCheckboxes: "N. text" becomes "- [ ] Step N: text", other lines
\* stay
planTextToCheckboxes(planText) ==
    [l \in 1..Len(planText) |->
        LET line == planText[l]
        IN IF /\ Len(line) >= 4
              /\ line[1] \in Numerals
              /\ line[2] = "."
              /\ line[3] = " "
           THEN <<PEND, line[1], ":", " ">> \o Trim(SubSeq(line, 4, Len(line)))
           ELSE line]

\* what the agent returns in plan mode: a numbered list of k steps; the plans
\* considered are the one without a step and the one with MaxPlanSteps steps
PlanText(k) == [j \in 1..k |-> <<NumberToString(j), ".", " ", StepWord(j)>>]
AgentPlans == {PlanText(0), PlanText(MaxPlanSteps)}

\* the user's replies
Messages == {<<"LGTM">>, <<"use", "redis">>}

PlanKinds == {"planning", "clarification"}

\* runInitialPlanningJob: const record = await getIssue(issueId) and the guards
PlanGetIssue(t) ==
    /\ IsJob(t, "planning", "getIssue")
    /\ LET record == getIssue(issues, jobs[t].issue)
       IN IF \/ (record # NoRecord /\ record.state # "planning")
             \/ record.agentSessionId = NULL
          THEN JobEnds(t, jobs)
          ELSE /\ jobs' = [jobs EXCEPT ![t].pc = "fetchIssue",
                                       ![t].sess = record.agentSessionId]
               /\ UNCHANGED <<queue, activePrs>>
    /\ UNCHANGED <<issues, lastUpsert, env, comments, branches, pulls, agentRuns, events,
                   requests>>

\* runClarificationJob's three early returns
ClarIgnores_NoStateCheck(record) ==
    \/ record = NoRecord
    \/ record.agentSessionId = NULL
ClarIgnores(record) ==
    \/ record = NoRecord
    \/ record.state \notin {"awaiting_clarification", "awaiting_approval"}
    \/ record.agentSessionId = NULL

\* runClarificationJob: const record = await getIssue(issueId) and the guards
ClarGetIssue(t) ==
    /\ IsJob(t, "clarification", "getIssue")
    /\ LET record == getIssue(issues, jobs[t].issue)
       IN IF ClarIgnores(record)
          THEN JobEnds(t, jobs)
          ELSE /\ jobs' = [jobs EXCEPT ![t].pc = "fetchIssue",
                                       ![t].sess = record.agentSessionId]
               /\ UNCHANGED <<queue, activePrs>>
    /\ UNCHANGED <<issues, lastUpsert, env, comments, branches, pulls, agentRuns, events,
                   requests>>

\* fetchIssueWithComments resolves; ensureRepoCheckedOut is called
PlanFetchIssue(t) ==
    /\ t \in 1..Len(jobs)
    /\ jobs[t].kind \in PlanKinds
    /\ jobs[t].pc = "fetchIssue"
    /\ jobs' = [jobs EXCEPT ![t].pc = "checkout"]
    /\ UNCHANGED <<issues, lastUpsert, env, queue, activePrs, comments, branches, pulls,
                   agentRuns, events, requests>>

\* planning: ensureRepoCheckedOut resolves, upsertIssue("planning", repoPath)
\* is called; or it rejects and the job posts the diagnostic
PlanCheckout(t) ==
    /\ IsJob(t, "planning", "checkout")
    /\ \E ok \in BOOLEAN :
         jobs' = [jobs EXCEPT ![t].pc = IF ok THEN "upsertPlanning" ELSE "postCheckoutFailed"]
    /\ UNCHANGED <<issues, lastUpsert, env, queue, activePrs, comments, branches, pulls,
                   agentRuns, events, requests>>

\* clarification: ensureRepoCheckedOut resolves; the reply is classified
ClarCheckout(t) ==
    /\ IsJob(t, "clarification", "checkout")
    /\ jobs' = [jobs EXCEPT ![t].pc =
                  IF isApproval(MessageToCheck(jobs[t].msg, comments))
                  THEN "postApproved" ELSE "upsertClarifying"]
    /\ UNCHANGED <<issues, lastUpsert, env, queue, activePrs, comments, branches, pulls,
                   agentRuns, events, requests>>

\* the upsert before the agent run resolves ("planning" in the planning job,
\* "awaiting_clarification" in the clarification job); runPlanMode is called
PlanUpsertBeforeAgent(t) ==
    /\ t \in 1..Len(jobs)
    /\ \/ jobs[t].kind = "planning" /\ jobs[t].pc = "upsertPlanning"
       \/ jobs[t].kind = "clarification" /\ jobs[t].pc = "upsertClarifying"
    /\ issues' = upsertIssue(issues, jobs[t].issue,
          Call("org1",
               IF jobs[t].kind = "planning" THEN "planning" ELSE "awaiting_clarification",
               RepoPath(jobs[t].issue), NULL, NULL, NULL))
    /\ jobs' = [jobs EXCEPT ![t].pc = "runPlanMode"]
    /\ agentRuns' = Append(agentRuns, [job |-> t, mode |-> "plan", step |-> 0])
    /\ UNCHANGED <<lastUpsert, env, queue, activePrs, comments, branches, pulls, events,
                   requests>>

\* if (planResult.needsClarification) post the draft, else
\* postPlanAndAwaitApproval
AfterPlanMode_Swapped(needsClarification) ==
    IF needsClarification THEN "postPlanComment" ELSE "postDraft"
AfterPlanMode(needsClarification) ==
    IF needsClarification THEN "postDraft" ELSE "postPlanComment"

\* runPlanMode resolves with a plan that needs clarification or not, or rejects
PlanModeReturns(t) ==
    /\ t \in 1..Len(jobs)
    /\ jobs[t].kind \in PlanKinds
    /\ jobs[t].pc = "runPlanMode"
    /\ \/ \E raw \in AgentPlans, needsClarification \in BOOLEAN :
            jobs' = [jobs EXCEPT
              ![t].body = <<(<<"## Implementation Plan">>), <<>>>> \o planTextToCheckboxes(raw),
              ![t].needsClarification = needsClarification,
              ![t].pc = AfterPlanMode(needsClarification)]
       \/ jobs' = [jobs EXCEPT ![t].pc = "postPlanFailed"]
    /\ UNCHANGED <<issues, lastUpsert, env, queue, activePrs, comments, branches, pulls,
                   agentRuns, events, requests>>

\* a message is posted and the job returns
PlanPostAndReturn_NoReturn(t) ==
    /\ t \in 1..Len(jobs)
    /\ jobs[t].kind \in PlanKinds
    /\ jobs[t].pc \in {"postCheckoutFailed", "postPlanFailed", "postPlanActivity"}
    /\ IF jobs[t].pc = "postCheckoutFailed"
       THEN /\ jobs' = [jobs EXCEPT ![t].posted = @ \cup {jobs[t].pc},
                                    ![t].pc = "upsertPlanning"]
            /\ UNCHANGED <<queue, activePrs>>
       ELSE JobEnds(t, [jobs EXCEPT ![t].posted = @ \cup {jobs[t].pc}])
    /\ UNCHANGED <<issues, lastUpsert, env, comments, branches, pulls, agentRuns, events,
                   requests>>
PlanPostAndReturn(t) ==
    /\ t \in 1..Len(jobs)
    /\ jobs[t].kind \in PlanKinds
    /\ jobs[t].pc \in {"postCheckoutFailed", "postPlanFailed", "postPlanActivity"}
    /\ JobEnds(t, [jobs EXCEPT ![t].posted = @ \cup {jobs[t].pc}])
    /\ UNCHANGED <<issues, lastUpsert, env, comments, branches, pulls, agentRuns, events,
                   requests>>

\* the draft with the questions is posted; upsertIssue is called
PlanPostDraft(t) ==
    /\ t \in 1..Len(jobs)
    /\ jobs[t].kind \in PlanKinds
    /\ jobs[t].pc = "postDraft"
    /\ jobs' = [jobs EXCEPT ![t].pc = "upsertAwaitingClarification",
                            ![t].posted = @ \cup {"postDraft"}]
    /\ UNCHANGED <<issues, lastUpsert, env, queue, activePrs, comments, branches, pulls,
                   agentRuns, events, requests>>

\* upsertIssue("awaiting_clarification", repoPath) resolves; the job returns
PlanUpsertAwaitingClarification(t) ==
    /\ t \in 1..Len(jobs)
    /\ jobs[t].kind \in PlanKinds
    /\ jobs[t].pc = "upsertAwaitingClarification"
    /\ issues' = upsertIssue(issues, jobs[t].issue,
          Call("org1", "awaiting_clarification", RepoPath(jobs[t].issue), NULL, NULL, NULL))
    /\ JobEnds(t, jobs)
    /\ UNCHANGED <<lastUpsert, env, comments, branches, pulls, agentRuns, events,
                   requests>>

\* postPlanAndAwaitApproval: postPlanComment resolves with the new comment's id
postPlanComment(t) ==
    /\ t \in 1..Len(jobs)
    /\ jobs[t].kind \in PlanKinds
    /\ jobs[t].pc = "postPlanComment"
    /\ Len(comments) < 4
    /\ comments' = Append(comments, jobs[t].body)
    /\ jobs' = [jobs EXCEPT ![t].plan = CommentId(Len(comments) + 1),
                            ![t].pc = "upsertAwaitingApproval"]
    /\ UNCHANGED <<issues, lastUpsert, env, queue, activePrs, branches, pulls,
                   agentRuns, events, requests>>

\* postPlanAndAwaitApproval: upsertIssue("awaiting_approval", repoPath, null,
\* commentId) resolves
postPlanAndAwaitApproval_NoCommentId(t) ==
    /\ t \in 1..Len(jobs)
    /\ jobs[t].kind \in PlanKinds
    /\ jobs[t].pc = "upsertAwaitingApproval"
    /\ issues' = upsertIssue(issues, jobs[t].issue,
          Call("org1", "awaiting_approval", RepoPath(jobs[t].issue), NULL, NULL, NULL))
    /\ jobs' = [jobs EXCEPT ![t].pc = "postPlanActivity"]
    /\ UNCHANGED <<lastUpsert, env, queue, activePrs, comments, branches, pulls,
                   agentRuns, events, requests>>
postPlanAndAwaitApproval(t) ==
    /\ t \in 1..Len(jobs)
    /\ jobs[t].kind \in PlanKinds
    /\ jobs[t].pc = "upsertAwaitingApproval"
    /\ issues' = upsertIssue(issues, jobs[t].issue,
          Call("org1", "awaiting_approval", RepoPath(jobs[t].issue), NULL, jobs[t].plan, NULL))
    /\ jobs' = [jobs EXCEPT ![t].pc = "postPlanActivity"]
    /\ UNCHANGED <<lastUpsert, env, queue, activePrs, comments, branches, pulls,
                   agentRuns, events, requests>>

\* clarification, approved: the approval message is posted; upsertIssue is called
ClarPostApproved(t) ==
    /\ IsJob(t, "clarification", "postApproved")
    /\ jobs' = [jobs EXCEPT ![t].pc = "upsertInProgress",
                            ![t].posted = @ \cup {"postApproved"}]
    /\ UNCHANGED <<issues, lastUpsert, env, queue, activePrs, comments, branches, pulls,
                   agentRuns, events, requests>>

ClarUpsertInProgress_AwaitsAdd(t) ==
    /\ IsJob(t, "clarification", "upsertInProgress")
    /\ issues' = upsertIssue(issues, jobs[t].issue,
          Call("org1", "in_progress", RepoPath(jobs[t].issue), NULL, NULL, NULL))
    /\ LET st == QueueAdd(queue, [jobs EXCEPT ![t].pc = "awaitAdd"], activePrs, env,
                          NewJob("implementation", jobs[t].issue, NoPr, <<>>))
       IN /\ queue' = st.queue
          /\ jobs' = st.jobs
          /\ activePrs' = st.activePrs
    /\ UNCHANGED <<lastUpsert, env, comments, branches, pulls, agentRuns, events,
                   requests>>
\* clarification, approved: upsertIssue("in_progress", repoPath) resolves, the
\* implementation job is added to the queue and the job returns
ClarUpsertInProgress(t) ==
    /\ IsJob(t, "clarification", "upsertInProgress")
    /\ issues' = upsertIssue(issues, jobs[t].issue,
          Call("org1", "in_progress", RepoPath(jobs[t].issue), NULL, NULL, NULL))
    /\ LET added == QueueAdd(queue, jobs, activePrs, env,
                             NewJob("implementation", jobs[t].issue, NoPr, <<>>))
           st == QueueNext(added.queue, added.jobs, added.activePrs, t, "done")
       IN /\ queue' = st.queue
          /\ jobs' = st.jobs
          /\ activePrs' = st.activePrs
    /\ UNCHANGED <<lastUpsert, env, comments, branches, pulls, agentRuns, events,
                   requests>>

PlanStep(t) ==
    \/ PlanGetIssue(t)
    \/ ClarGetIssue(t)
    \/ PlanFetchIssue(t)
    \/ PlanCheckout(t)
    \/ ClarCheckout(t)
    \/ PlanUpsertBeforeAgent(t)
    \/ PlanModeReturns(t)
    \/ PlanPostAndReturn(t)
    \/ PlanPostDraft(t)
    \/ PlanUpsertAwaitingClarification(t)
    \/ postPlanComment(t)
    \/ postPlanAndAwaitApproval(t)
    \/ ClarPostApproved(t)
    \/ ClarUpsertInProgress(t)

\* ------------------------------------------------------ Linear webhook dispatcher

\* the queue gets the task closure of a phase job
AddJob(job) ==
    LET st == QueueAdd(queue, jobs, activePrs, env, job)
    IN /\ queue' = st.queue
       /\ jobs' = st.jobs
       /\ activePrs' = st.activePrs

\* handleAgentSession, action "created": the greeting is posted (a failure is
\* logged), the session id is stored with state "planning", and the planning
\* job is enqueued
handleAgentSessionCreated(i, session) ==
    /\ events < MaxEvents
    /\ events' = events + 1
    /\ issues' = upsertIssue(issues, i, Call("org1", "planning", NULL, session, NULL, NULL))
    /\ AddJob(NewJob("planning", i, NoPr, <<>>))
    /\ UNCHANGED <<lastUpsert, env, comments, branches, pulls, agentRuns, requests>>

\* handleAgentSession, action "prompted": the clarification job is enqueued
\* with the user's message
handleAgentSessionPrompted(i, userMessage) ==
    /\ events < MaxEvents
    /\ events' = events + 1
    /\ AddJob(NewJob("clarification", i, NoPr, userMessage))
    /\ UNCHANGED <<issues, lastUpsert, env, comments, branches, pulls, agentRuns,
                   requests>>

\* handleIssueUpdate, the issue was assigned to the agent: the planning job is
\* enqueued
handleIssueUpdate(i) ==
    /\ events < MaxEvents
    /\ events' = events + 1
    /\ AddJob(NewJob("planning", i, NoPr, <<>>))
    /\ UNCHANGED <<issues, lastUpsert, env, comments, branches, pulls, agentRuns,
                   requests>>

handleWebhook ==
    \/ handleAgentSessionCreated("i1", "s1")
    \/ \E userMessage \in Messages : handleAgentSessionPrompted("i1", userMessage)
    \/ handleIssueUpdate("i1")

\* The service from its start: no record, no job, the queue not yet built.
Init ==
    /\ issues = [i \in Issues |-> NoRecord]
    /\ lastUpsert = NoCall
    /\ env \in {"unset", "1"}
    /\ queue = NoQueue
    /\ jobs = <<>>
    /\ activePrs = {}
    /\ comments = <<>>
    /\ branches = {}
    /\ pulls = <<>>
    /\ agentRuns = <<>>
    /\ events = 0
    /\ requests = <<>>

Next ==
    \/ handleWebhook
    \/ \E t \in 1..MaxJobs : PlanStep(t) \/ ImplStep(t) \/ JobThrows(t)
Spec == Init /\ [][Next]_vars

\* ------------------------------------------------ marking a plan, step by step

\* what a step's description can be: a word, or words that quote the pending
\* marker of a step (the description is free text after "Step N: ")
StepTexts(j) ==
    {<<StepWord(j)>>} \cup
    {<<"see", " ", PEND, NumberToString(n), ":", " ", "below">> : n \in 1..MaxSteps}
\* the documents with steps 1..k, all pending, each step with one of its texts
PendingDoc(k, texts) ==
    <<(<<"## Implementation Plan">>), <<>>>> \o
    [j \in 1..k |-> <<PEND, NumberToString(j), ":", " ">> \o texts[j]]
PendingDocs ==
    UNION {{PendingDoc(k, texts) :
              texts \in {f \in [1..k -> UNION {StepTexts(j) : j \in 1..MaxSteps}] :
                            \A j \in 1..k : f[j] \in StepTexts(j)}} :
           k \in 0..MaxSteps}

\* The step loop's replacement alone: comments[1] is the plan comment as the
\* job read it, comments[2] the job's currentCommentBody, events the number
\* of steps marked so far.
InitMark ==
    /\ issues = [i \in Issues |-> NoRecord]
    /\ lastUpsert = NoCall
    /\ env = "unset"
    /\ queue = NoQueue
    /\ jobs = <<>>
    /\ activePrs = {}
    /\ \E doc \in PendingDocs : comments = <<doc, doc>>
    /\ branches = {}
    /\ pulls = <<>>
    /\ agentRuns = <<>>
    /\ events = 0
    /\ requests = <<>>

\* currentCommentBody = currentCommentBody.replace("- [ ] Step N:", "- [x] Step N:")
\* for the next of the steps parsed at the start
MarkNextStep ==
    LET steps == parsePlanSteps(comments[1])
    IN /\ events < Len(steps)
       /\ comments' = <<comments[1], MarkDone(comments[2], steps[events + 1].stepNumber)>>
       /\ events' = events + 1
       /\ UNCHANGED <<issues, lastUpsert, env, queue, jobs, activePrs, branches, pulls,
                      agentRuns, requests>>

NextMark == MarkNextStep
SpecMark == InitMark /\ [][NextMark]_vars

\* ------------------------------------- planning and clarification on their own

\* The records the store can hold for an issue when the process starts (the
\* table outlives the process, the queue does not): none, or what the
\* dispatcher and the phase jobs have written up to some state.
StoredRecords ==
    {NoRecord,
     Call("org1", "planning", NULL, "s1", NULL, NULL),
     Call("org1", "planning", RepoPath("i1"), "s1", NULL, NULL),
     Call("org1", "awaiting_clarification", RepoPath("i1"), "s1", NULL, NULL),
     Call("org1", "awaiting_clarification", RepoPath("i1"), "s1", CommentId(1), NULL),
     Call("org1", "awaiting_approval", RepoPath("i1"), "s1", CommentId(1), NULL),
     Call("org1", "in_progress", RepoPath("i1"), "s1", NULL, NULL),
     Call("org1", "in_progress", RepoPath("i1"), "s1", CommentId(1), NULL),
     Call("org1", "implemented", RepoPath("i1"), "s1", CommentId(1), NULL)}

InitPlanning ==
    /\ \E record \in StoredRecords :
         /\ issues = [i \in Issues |-> IF i = "i1" THEN record ELSE NoRecord]
         /\ comments = IF record.planCommentId = NULL THEN <<>>
                       ELSE <<PlanDoc(1, [j \in 1..1 |->
                                 IF record.state = "implemented" THEN DONE ELSE PEND])>>
    /\ lastUpsert = NoCall
    /\ env \in {"unset", "1"}
    /\ queue = NoQueue
    /\ jobs = <<>>
    /\ activePrs = {}
    /\ branches = {}
    /\ pulls = <<>>
    /\ agentRuns = <<>>
    /\ events = 0
    /\ requests = <<>>

\* Webhook deliveries and the steps of the planning and clarification jobs;
\* an Implementation job that an approval enqueues is started by the queue
\* and stays at its first await.
Delivery ==
    /\ events < MaxDeliveries
    /\ handleWebhook
PlanJobThrows(t) ==
    /\ t \in 1..Len(jobs)
    /\ jobs[t].kind \in PlanKinds
    /\ JobThrows(t)
NextPlanning ==
    \/ Delivery
    \/ \E t \in 1..MaxJobs : PlanStep(t) \/ PlanJobThrows(t)
SpecPlanning == InitPlanning /\ [][NextPlanning]_vars

\* --------------------------------------------------------------- runCodeReviewJob

\* const record = await getIssue(issueId), and the required fields
ReviewGetIssue(t) ==
    /\ IsJob(t, "codeReview", "getIssue")
    /\ LET record == getIssue(issues, jobs[t].issue)
       IN IF \/ record = NoRecord
             \/ record.agentSessionId = NULL
             \/ record.repoPath = NULL
             \/ record.prUrl = NULL
          THEN JobEnds(t, [jobs EXCEPT ![t].threw = TRUE])
          ELSE /\ jobs' = [jobs EXCEPT ![t].pc = "postReviewStarting",
                                       ![t].sess = record.agentSessionId,
                                       ![t].plan = record.planCommentId,
                                       ![t].prUrl = record.prUrl]
               /\ UNCHANGED <<queue, activePrs>>
    /\ UNCHANGED <<issues, lastUpsert, env, comments, branches, pulls, agentRuns, events,
                   requests>>

\* awaits that only lead on to the next await; fetchComment is awaited only
\* when the record has a planCommentId, and its rejection is caught
ReviewAdvance(t) ==
    /\ t \in 1..Len(jobs)
    /\ jobs[t].kind = "codeReview"
    /\ jobs[t].pc \in {"postReviewStarting", "fetchIssue", "fetchComment", "getGitDiff",
                       "runAgentMode", "commitAndPush", "revParseAfter",
                       "postReviewResult", "updateStatusInReview", "postPrAnnounce",
                       "postComment"}
    /\ LET job == jobs[t]
       IN jobs' = [jobs EXCEPT ![t] =
            CASE job.pc = "postReviewStarting" ->
                   [job EXCEPT !.pc = "fetchIssue", !.posted = @ \cup {"reviewStarting"}]
              [] job.pc = "fetchIssue" ->
                   [job EXCEPT !.pc = IF job.plan # NULL THEN "fetchComment" ELSE "getGitDiff"]
              [] job.pc = "fetchComment" -> [job EXCEPT !.pc = "getGitDiff"]
              [] job.pc = "getGitDiff" -> [job EXCEPT !.pc = "revParseBefore"]
              [] job.pc = "runAgentMode" -> [job EXCEPT !.pc = "commitAndPush"]
              [] job.pc = "commitAndPush" -> [job EXCEPT !.pc = "revParseAfter"]
              [] job.pc = "revParseAfter" -> [job EXCEPT !.pc = "postReviewResult"]
              [] job.pc = "postReviewResult" ->
                   [job EXCEPT !.pc = "updateStatusInReview",
                               !.posted = @ \cup {"reviewResult"}]
              [] job.pc = "updateStatusInReview" -> [job EXCEPT !.pc = "postPrAnnounce"]
              [] job.pc = "postPrAnnounce" ->
                   [job EXCEPT !.pc = "postComment", !.posted = @ \cup {"prAnnounce"}]
              [] job.pc = "postComment" -> [job EXCEPT !.pc = "upsertImplemented"]]
    /\ UNCHANGED <<issues, lastUpsert, env, queue, activePrs, comments, branches, pulls,
                   agentRuns, events, requests>>

\* git rev-parse HEAD resolves; runAgentMode is called with the review prompt
ReviewRunAgent(t) ==
    /\ IsJob(t, "codeReview", "revParseBefore")
    /\ jobs' = [jobs EXCEPT ![t].pc = "runAgentMode"]
    /\ agentRuns' = Append(agentRuns, [job |-> t, mode |-> "write", step |-> 0])
    /\ UNCHANGED <<issues, lastUpsert, env, queue, activePrs, comments, branches, pulls,
                   events, requests>>

\* await upsertIssue(issueId, orgId, "implemented", repoPath, null, null, prUrl)
ReviewUpsertImplemented(t) ==
    /\ IsJob(t, "codeReview", "upsertImplemented")
    /\ issues' = upsertIssue(issues, jobs[t].issue,
                     Call("org1", "implemented", RepoPath(jobs[t].issue), NULL, NULL,
                          jobs[t].prUrl))
    /\ JobEnds(t, jobs)
    /\ UNCHANGED <<lastUpsert, env, comments, branches, pulls, agentRuns, events,
                   requests>>

ReviewStep(t) ==
    \/ ReviewGetIssue(t)
    \/ ReviewAdvance(t)
    \/ ReviewRunAgent(t)
    \/ ReviewUpsertImplemented(t)

\* ------------------------------------------------ one phase job, any stored row

PhaseKinds == {"planning", "clarification", "implementation", "codeReview"}

\* every row the issues table can hold for an issue: no row, or any state
\* with each nullable column NULL or set
AnyRecords ==
    {NoRecord} \cup
    {Call("org1", st, rp, sess, plan, pr) :
        st \in IssueState, rp \in {NULL, RepoPath("i1")}, sess \in {NULL, "s1"},
        plan \in {NULL, CommentId(1)}, pr \in {NULL, "pr1"}}

\* the plan documents with up to MaxPlanSteps steps
PhaseDocs ==
    UNION {{PlanDoc(k, marks) : marks \in [1..k -> {PEND, DONE}]} : k \in 0..MaxPlanSteps}

\* One phase job of any kind has been handed to the queue for issue i1, whose
\* row is any row the table can hold.  lastUpsert.before keeps the row the
\* phase starts from (no upsertIssue call has been made yet).
InitPhase ==
    /\ \E record \in AnyRecords :
         /\ issues = [i \in Issues |-> IF i = "i1" THEN record ELSE NoRecord]
         /\ IF record.planCommentId = NULL THEN comments = <<>>
            ELSE \E doc \in PhaseDocs : comments = <<doc>>
         /\ lastUpsert = [call |-> NoRecord, before |-> record]
    /\ env = "unset"
    /\ branches \in {{}, {"i1"}}
    /\ pulls = <<>>
    /\ \E kind \in PhaseKinds :
         \E msg \in IF kind = "clarification" THEN Messages ELSE {<<>>} :
           LET st == QueueAdd(NoQueue, <<>>, {}, "unset", NewJob(kind, "i1", NoPr, msg))
           IN /\ queue = st.queue
              /\ jobs = st.jobs
              /\ activePrs = st.activePrs
    /\ agentRuns = <<>>
    /\ events = 0
    /\ requests = <<>>

NextPhase == PlanStep(1) \/ ImplStep(1) \/ ReviewStep(1) \/ JobThrows(1)
SpecPhase == InitPhase /\ [][NextPhase]_vars

\* ------------------------------------- the step loop on plans with free text

\* Implementation alone, as InitImpl, on a plan document whose steps are all
\* pending and whose descriptions are free text (PendingDocs).
InitLoop ==
    /\ issues = [i \in Issues |->
                   IF i = "i1"
                   THEN Call("org1", "in_progress", RepoPath("i1"), "s1", CommentId(1), NULL)
                   ELSE NoRecord]
    /\ lastUpsert = NoCall
    /\ env = "unset"
    /\ \E doc \in PendingDocs : comments = <<doc>>
    /\ branches \in {{}, {"i1"}}
    /\ pulls = <<>>
    /\ LET st == QueueAdd(NoQueue, <<>>, {}, "unset", NewJob("implementation", "i1", NoPr, <<>>))
       IN /\ queue = st.queue
          /\ jobs = st.jobs
          /\ activePrs = st.activePrs
    /\ agentRuns = <<>>
    /\ events = 0
    /\ requests = <<>>

NextLoop == ImplStep(1) \/ JobThrows(1)
SpecLoop == InitLoop /\ [][NextLoop]_vars

\* ------------------------------------------------------------- webhook intake

\* what a delivery can carry.  sig: the signature header against the body
\* ("short": not of the digest's length, so crypto.timingSafeEqual throws);
\* with no webhook secret configured every delivery is taken as "valid".
Signatures == {"valid", "invalid", "short"}
\* "unhandled": a type handleWebhook ignores, or an Issue update that
\* assigns no one; "ignored": a GitHub event or comment that is no trigger
LinearPayloads ==
    {[type |-> type, msg |-> <<>>] :
        type \in {"created", "issueAssigned", "unhandled", "malformed"}}
    \cup {[type |-> "prompted", msg |-> msg] : msg \in Messages}
GithubPayloads ==
    {[type |-> type, pr |-> NoPr] : type \in {"ignored", "malformed"}}
    \cup {[type |-> "trigger", pr |-> pr] : pr \in Prs}
\* the deliveries: any payload with a good signature, one with a bad one
Deliveries(payloads, unsigned) ==
    {<<"valid", payload>> : payload \in payloads}
    \cup {<<sig, unsigned>> : sig \in Signatures \ {"valid"}}

\* a request whose handler has not run yet
NewRequest(route, sig, payload) ==
    [route |-> route, sig |-> sig, payload |-> payload, pc |-> "received",
     status |-> 0, trace |-> <<>>, error |-> FALSE, job |-> 0]

\* res.status(code).json(...)
Respond(req, code) == [req EXCEPT !.status = code, !.trace = Append(@, "respond")]

\* the signature test at the head of both routers
Verified(req) ==
    CASE req.sig = "short" -> [req EXCEPT !.pc = "rejected", !.error = TRUE]
      [] req.sig = "invalid" -> [Respond(req, 401) EXCEPT !.pc = "closed"]
      [] OTHER -> req

\* handleWebhook up to its first await: AgentSessionEvent and an Issue update
\* that assigns someone go on to `await getAccessToken`
Dispatched(req) ==
    LET d == [req EXCEPT !.trace = Append(@, "dispatch")]
    IN IF req.payload.type \in {"created", "prompted", "issueAssigned"}
       THEN [d EXCEPT !.pc = "getAccessToken"]
       ELSE [d EXCEPT !.pc = "closed"]

\* linearWebhookRouter.post, the synchronous head: verify, respond 200,
\* JSON.parse (outside the try block), handleWebhook
linearWebhookRouter_post_DispatchFirst(req) ==
    LET v == Verified(req)
    IN IF v.pc # "received" THEN v
       ELSE IF req.payload.type = "malformed"
            THEN [Respond(v, 200) EXCEPT !.pc = "rejected", !.error = TRUE]
            ELSE Respond(Dispatched(v), 200)
linearWebhookRouter_post(req) ==
    LET v == Verified(req)
    IN IF v.pc # "received" THEN v
       ELSE IF req.payload.type = "malformed"
            THEN [Respond(v, 200) EXCEPT !.pc = "rejected", !.error = TRUE]
            ELSE Dispatched(Respond(v, 200))

\* a Linear delivery arrives
LinearPost ==
    /\ Len(requests) < MaxRequests
    /\ \E d \in Deliveries(LinearPayloads, [type |-> "unhandled", msg |-> <<>>]) :
         requests' = Append(requests,
                            linearWebhookRouter_post(NewRequest("linear", d[1], d[2])))
    /\ UNCHANGED <<issues, lastUpsert, env, queue, jobs, activePrs, comments, branches,
                   pulls, agentRuns, events>>

\* an await of handleAgentSession or handleIssueUpdate resolves and the
\* handler runs to its next await, or returns (no access token, assigned to
\* someone else); a failed greeting or thought activity is caught in place
LinearAwait(r) ==
    /\ r \in 1..Len(requests)
    /\ requests[r].route = "linear"
    /\ requests[r].pc \in {"getAccessToken", "viewer", "greeting"}
    /\ \E goesOn \in BOOLEAN :
         requests' = [requests EXCEPT ![r].pc =
            CASE requests[r].pc = "greeting" -> "upsertIssue"
              [] ~goesOn -> "closed"
              [] requests[r].pc = "viewer" -> "enqueue"
              [] requests[r].payload.type = "created" -> "greeting"
              [] requests[r].payload.type = "prompted" -> "thought"
              [] OTHER -> "viewer"]
    /\ UNCHANGED <<issues, lastUpsert, env, queue, jobs, activePrs, comments, branches,
                   pulls, agentRuns, events>>

\* the last await of the handler is over: upsertIssue("planning", null,
\* agentSession.id) has resolved (created), the thought activity was posted
\* or failed (prompted), the viewer is the assignee (issue update); the job's
\* closure is handed to the queue and the handler returns
LinearEnqueue(r) ==
    /\ r \in 1..Len(requests)
    /\ requests[r].route = "linear"
    /\ requests[r].pc \in {"upsertIssue", "thought", "enqueue"}
    /\ issues' = IF requests[r].pc = "upsertIssue"
                 THEN upsertIssue(issues, "i1", Call("org1", "planning", NULL, "s1", NULL, NULL))
                 ELSE issues
    /\ AddJob(IF requests[r].payload.type = "prompted"
              THEN NewJob("clarification", "i1", NoPr, requests[r].payload.msg)
              ELSE NewJob("planning", "i1", NoPr, <<>>))
    /\ requests' = [requests EXCEPT ![r].pc = "closed",
                                    ![r].trace = Append(@, "enqueue"),
                                    ![r].job = Len(jobs) + 1]
    /\ UNCHANGED <<lastUpsert, env, comments, branches, pulls, agentRuns, events>>

\* an await outside the handlers' own try blocks rejects: the router's
\* catch logs it
LinearRejects(r) ==
    /\ r \in 1..Len(requests)
    /\ requests[r].route = "linear"
    /\ requests[r].pc \in {"getAccessToken", "viewer", "upsertIssue"}
    /\ requests' = [requests EXCEPT ![r].pc = "closed", ![r].error = TRUE]
    /\ UNCHANGED <<issues, lastUpsert, env, queue, jobs, activePrs, comments, branches,
                   pulls, agentRuns, events>>

\* githubWebhookRouter.post, all of it synchronous: verify, respond 200,
\* parse and filter the event, hand runPrCommentJob's closure to the queue
GithubPost ==
    /\ Len(requests) < MaxRequests
    /\ \E d \in Deliveries(GithubPayloads, [type |-> "ignored", pr |-> NoPr]) :
         LET payload == d[2]
             v == Verified(NewRequest("github", d[1], payload))
             ok == Respond(v, 200)
         IN IF v.pc # "received"
            THEN /\ requests' = Append(requests, v)
                 /\ UNCHANGED <<queue, jobs, activePrs>>
            ELSE IF payload.type # "trigger"
            THEN /\ requests' = Append(requests,
                      [ok EXCEPT !.pc = "closed", !.error = (payload.type = "malformed")])
                 /\ UNCHANGED <<queue, jobs, activePrs>>
            ELSE /\ requests' = Append(requests,
                      [ok EXCEPT !.pc = "closed", !.job = Len(jobs) + 1,
                                 !.trace = @ \o <<"dispatch", "enqueue">>])
                 /\ AddJob(NewJob("prComment", "", payload.pr, <<>>))
    /\ UNCHANGED <<issues, lastUpsert, env, comments, branches, pulls, agentRuns, events>>

\* The service after a start (the table kept, as in InitPlanning), with
\* webhook deliveries to both routers; the first job enqueued runs when it is
\* a planning or clarification job, the other jobs stay at their first await.
InitIntake ==
    /\ \E record \in StoredRecords :
         /\ issues = [i \in Issues |-> IF i = "i1" THEN record ELSE NoRecord]
         /\ comments = IF record.planCommentId = NULL THEN <<>>
                       ELSE <<PlanDoc(1, [j \in 1..1 |->
                                 IF record.state = "implemented" THEN DONE ELSE PEND])>>
    /\ lastUpsert = NoCall
    /\ env = "unset"
    /\ queue = NoQueue
    /\ jobs = <<>>
    /\ activePrs = {}
    /\ branches = {}
    /\ pulls = <<>>
    /\ agentRuns = <<>>
    /\ events = 0
    /\ requests = <<>>

NextIntake ==
    \/ LinearPost
    \/ GithubPost
    \/ \E r \in 1..MaxRequests : LinearAwait(r) \/ LinearEnqueue(r) \/ LinearRejects(r)
    \/ PlanStep(1)
    \/ PlanJobThrows(1)
SpecIntake == InitIntake /\ [][NextIntake]_vars

\* -------------------------------------------------- detectClarificationNeeded

\* An output of the agent is a sequence of lines, a line a sequence of
\* tokens: a run of '#', " ", a word, a numeral, ".", "?".
HashRuns == <<"#", "##", "###", "####">>
HashCount(token) ==
    IF \E n \in 1..Len(HashRuns) : HashRuns[n] = token
    THEN CHOOSE n \in 1..Len(HashRuns) : HashRuns[n] = token
    ELSE 0

\* index of the first token at or after k that is not whitespace (Len + 1
\* when there is none): what \s* skips
RECURSIVE SkipSpace(_, _)
SkipSpace(line, k) ==
    IF k <= Len(line) /\ line[k] = " " THEN SkipSpace(line, k + 1) ELSE k

\* /^#{1,3}\s*clarify?ing\s+questions?/im on one line
MatchesClarifyingHeading(line) ==
    /\ Len(line) >= 1
    /\ HashCount(line[1]) \in 1..3
    /\ LET k == SkipSpace(line, 2)
           j == SkipSpace(line, k + 1)
       IN /\ j <= Len(line)
          /\ j > k + 1
          /\ Lower(line[k]) \in {"clarifying", "clarifing"}
          /\ Lower(line[j]) \in {"question", "questions"}

\* /^#{1,3}\s*questions?\s*$/im on one line
MatchesQuestionsHeading(line) ==
    /\ Len(line) >= 1
    /\ HashCount(line[1]) \in 1..3
    /\ LET k == SkipSpace(line, 2)
       IN /\ k <= Len(line)
          /\ Lower(line[k]) \in {"question", "questions"}
          /\ SkipSpace(line, k + 1) = Len(line) + 1

\* /^\d+\.\s+.+\?\s*$/m on one line
MatchesNumberedQuestion(line) ==
    LET t == TrimRight(line)
    IN /\ Len(t) >= 5
       /\ t[1] \in Numerals
       /\ t[2] = "."
       /\ t[3] = " "
       /\ t[Len(t)] = "?"

\* output.trimEnd(): trailing whitespace goes, blank lines included
RECURSIVE trimEnd(_)
trimEnd(output) ==
    IF output = <<>> THEN <<>>
    ELSE LET last == TrimRight(output[Len(output)])
         IN IF last = <<>> THEN trimEnd(SubSeq(output, 1, Len(output) - 1))
            ELSE [output EXCEPT ![Len(output)] = last]

\* lines.slice(-20)
TailLines == 20
Slice(lines, n) ==
    SubSeq(lines, IF Len(lines) > n THEN Len(lines) - n + 1 ELSE 1, Len(lines))

detectClarificationNeeded_NoTrim(output) ==
    \/ \E l \in 1..Len(output) : MatchesClarifyingHeading(output[l])
    \/ \E l \in 1..Len(output) : MatchesQuestionsHeading(output[l])
    \/ LET lastFewLines == Slice(output, TailLines)
       IN \E l \in 1..Len(lastFewLines) : MatchesNumberedQuestion(lastFewLines[l])
detectClarificationNeeded(output) ==
    \/ \E l \in 1..Len(output) : MatchesClarifyingHeading(output[l])
    \/ \E l \in 1..Len(output) : MatchesQuestionsHeading(output[l])
    \/ LET lastFewLines == Slice(trimEnd(output), TailLines)
       IN \E l \in 1..Len(lastFewLines) : MatchesNumberedQuestion(lastFewLines[l])

\* the lines an output is made of here
OutputLines ==
    {<<"##", " ", "Clarifying", " ", "Questions">>,
     <<"#", "clarifying", " ", "question">>,
     <<"###", " ", "Clarifying", " ", "Questions", " ", "answered">>,
     <<"####", " ", "Clarifying", " ", "Questions">>,
     <<"##", " ", "Questions">>,
     <<"####", " ", "Questions", " ">>,
     <<"##", " ", "Questions", " ", "answered">>,
     <<"No", " ", "remaining", " ", "clarifying", " ", "questions", ".">>,
     <<"1", ".", " ", "What", " ", "version", "?">>,
     <<"2", ".", " ", "Which", " ", "database", "?", " ">>,
     <<"1", ".", " ", "Add", " ", "tests">>,
     <<"What", " ", "version", "?">>}
Filler(n) == [k \in 1..n |-> <<"Plan">>]
Blank(n) == [k \in 1..n |-> IF k = 1 THEN <<" ">> ELSE <<>>]
\* one or two of the lines, up to MaxFill lines of plain text after the
\* first, up to MaxBlank blank lines at the end
Outputs ==
    {<<a>> \o Filler(n) \o b \o Blank(m) :
        a \in OutputLines, n \in 0..MaxFill,
        b \in {<<>>} \cup {<<l>> : l \in OutputLines}, m \in 0..MaxBlank}

\* runPlanMode has the agent's output in comments[1]
InitDetect ==
    /\ issues = [i \in Issues |-> NoRecord]
    /\ lastUpsert = NoCall
    /\ env = "unset"
    /\ queue = NoQueue
    /\ jobs = <<>>
    /\ activePrs = {}
    /\ \E output \in Outputs : comments = <<output>>
    /\ branches = {}
    /\ pulls = <<>>
    /\ agentRuns = <<>>
    /\ events = 0
    /\ requests = <<>>

\* runPlanMode resolves with
\* { raw: output, needsClarification: detectClarificationNeeded(output) }
runPlanMode ==
    /\ agentRuns = <<>>
    /\ agentRuns' = <<[job |-> 0, mode |-> "plan", step |-> 0,
                       needsClarification |-> detectClarificationNeeded(comments[1])]>>
    /\ UNCHANGED <<issues, lastUpsert, env, queue, jobs, activePrs, comments, branches,
                   pulls, events, requests>>

NextDetect == runPlanMode
SpecDetect == InitDetect /\ [][NextDetect]_vars

\* ------------------------------------------------ the reply to a plan, classified

\* The replies: a reply is a sequence of words and punctuation marks, words
\* separated by one space, a mark attached to the word before it.  Every
\* sequence of up to MaxReplyLen tokens, and four longer or shorter ones.
ReplyTokens ==
    {"approved", "LGTM", ",", "ship", "it", "yes", "let's", "go", "not", "yet",
     "ahead", "Okay", "yesterday"}
Replies ==
    UNION {[1..n -> ReplyTokens] : n \in 1..MaxReplyLen}
      \cup {<<"approved">>,
            <<"LGTM", ",", "ship", "it">>,
            <<"yes", "let's", "go">>,
            <<"not", "yet", ",", "need", "more", "info">>}

\* The issue awaits approval of its plan; the user's reply has been handed
\* to the queue as a clarification job.
InitReply ==
    /\ issues = [i \in Issues |->
                   IF i = "i1"
                   THEN Call("org1", "awaiting_approval", RepoPath("i1"), "s1",
                             CommentId(1), NULL)
                   ELSE NoRecord]
    /\ lastUpsert = NoCall
    /\ env = "unset"
    /\ comments = <<PlanDoc(1, [j \in 1..1 |-> PEND])>>
    /\ branches = {}
    /\ pulls = <<>>
    /\ \E msg \in Replies :
         LET st == QueueAdd(NoQueue, <<>>, {}, "unset",
                            NewJob("clarification", "i1", NoPr, msg))
         IN /\ queue = st.queue
            /\ jobs = st.jobs
            /\ activePrs = st.activePrs
    /\ agentRuns = <<>>
    /\ events = 0
    /\ requests = <<>>

\* runClarificationJob up to the branch on isApproval(messageToCheck)
NextReply == ClarGetIssue(1) \/ PlanFetchIssue(1) \/ ClarCheckout(1)
SpecReply == InitReply /\ [][NextReply]_vars

\* ------------------------------------------- an approval and the job it enqueues

\* The issue awaits approval of its plan; deliveries arrive, a follow-up
\* enqueues a Clarification job, an approval among them enqueues the
\* Implementation job from inside the Clarification job's slot; the queue
\* has one slot or two.
InitChain ==
    /\ issues = [i \in Issues |->
                   IF i = "i1"
                   THEN Call("org1", "awaiting_approval", RepoPath("i1"), "s1",
                             CommentId(1), NULL)
                   ELSE NoRecord]
    /\ lastUpsert = NoCall
    /\ env \in {"unset", "1"}
    /\ queue = NoQueue
    /\ jobs = <<>>
    /\ activePrs = {}
    /\ comments = <<PlanDoc(1, [j \in 1..1 |-> PEND])>>
    /\ branches = {}
    /\ pulls = <<>>
    /\ agentRuns = <<>>
    /\ events = 0
    /\ requests = <<>>

JobStep(t) == PlanStep(t) \/ ImplStep(t) \/ JobThrows(t)
NextChain == Delivery \/ \E t \in 1..MaxJobs : JobStep(t)
SpecChain == InitChain /\ [][NextChain]_vars
\* every await of a started job settles: the call resolves or rejects
SpecChainFair == SpecChain /\ \A t \in 1..MaxJobs : WF_vars(JobStep(t))

\* =================================================================== claims

Min(a, b) == IF a < b THEN a ELSE b

\* ---- C1 (SpecPr)
C1_PrJobs == {t \in 1..Len(jobs) : jobs[t].kind = "prComment"}
C1_AtMostOneHolder ==
    \A pr \in Prs : Cardinality(Holders(jobs, prKey(pr))) <= 1
\* a runPrCommentJob invocation begins in this step
C1_Begins(t) ==
    /\ t \in 1..Len(jobs')
    /\ jobs'[t].kind = "prComment"
    /\ jobs'[t].pc # "queued"
    /\ (t > Len(jobs) \/ jobs[t].pc = "queued")
C1_StartRule ==
    \A t \in 1..MaxPrEvents :
        C1_Begins(t) =>
            \* another invocation holds the key when t begins (an invocation
            \* that ends in this very step has released it before t is called)
            IF Holders(jobs', prKey(jobs'[t].pr)) \ {t} # {}
            THEN jobs'[t].pc = "busyReply"
            ELSE jobs'[t].pc = "postStarted" /\ prKey(jobs'[t].pr) \in activePrs'
\* C1: for every PR key at most one runPrCommentJob invocation is between
\* activePrs.add and activePrs.delete at any time; an invocation that begins
\* while another holds its key takes the busy path, and one that begins while
\* no invocation holds it takes the key and proceeds to the work phase.
C1_MutualExclusion == [](C1_AtMostOneHolder) /\ [][C1_StartRule]_vars
\* two overlapping invocations for one key: the first at work, the second busy
C1_Witness ==
    /\ Len(jobs) >= 2
    /\ jobs[1].pr = jobs[2].pr
    /\ jobs[1].pc = "runAgentMode"
    /\ jobs[2].pc = "busyReply"

\* ---- C2 (SpecPr)
\* C2: the key of a PR is in the lock table exactly while an invocation for it
\* is between activePrs.add and the finally block; once an invocation that
\* took the key is over, on the success path or after any failed step (also a
\* failed error reply), the key is held only if a later invocation took it.
C2_ReleasedOnEveryExit ==
    activePrs = {prKey(pr) : pr \in {q \in Prs : Holders(jobs, prKey(q)) # {}}}
\* the first invocation failed and its error reply failed too; a later trigger
\* for the same key is in the work phase
C2_Witness ==
    /\ Len(jobs) = 3
    /\ jobs[1].pr = jobs[3].pr
    /\ jobs[1].pc = "done" /\ jobs[1].threw /\ jobs[1].replyFailed
    /\ jobs[2].pr = jobs[1].pr /\ jobs[2].pc = "done" /\ ~jobs[2].threw
    /\ jobs[3].pc = "getPrBranch"

\* ---- C3 (SpecQueue)
\* C3: the number of tasks running at the same time never exceeds the
\* concurrency limit the queue was created with (AGENT_CONCURRENCY, 2 when it
\* is not set); with the limit 2, exactly 2 tasks run whenever at least 2 of
\* the enqueued tasks are unfinished (and all of the unfinished ones when
\* fewer are).
C3_Limit == IF env = "unset" THEN 2 ELSE parseInt(env)
C3_BoundedConcurrency ==
    /\ Cardinality(Running(jobs)) <= C3_Limit
    /\ queue.created => queue.concurrency = C3_Limit
    /\ queue.pending = Cardinality(Running(jobs))
    /\ C3_Limit = 2 =>
         Cardinality(Running(jobs)) = Min(2, Cardinality(Unfinished(jobs)))
\* five tasks enqueued on a queue of limit 2: two run, the others wait or are over
C3_Witness ==
    /\ env = "unset"
    /\ Len(jobs) = 5
    /\ Cardinality(Running(jobs)) = 2
    /\ Len(queue.waiting) = 2
    /\ \E t \in 1..Len(jobs) : jobs[t].pc = "failed"

\* ---- C4 (SpecQueueFair)
\* C4: every task the queue accepted eventually starts and settles, given that
\* each running task eventually finishes; a task that rejects neither stops
\* the queue nor keeps later tasks from running.
C4_EveryTaskCompletes ==
    \A t \in 1..MaxQueueTasks :
        (Len(jobs) >= t) ~> (Len(jobs) >= t /\ jobs[t].pc \in {"done", "failed"})
\* a task that had to wait behind a rejected task has completed
C4_Witness ==
    /\ Len(jobs) = MaxQueueTasks
    /\ queue.concurrency = 1
    /\ jobs[1].pc = "failed"
    /\ \A t \in 2..Len(jobs) : jobs[t].pc = "done"

\* ---- C7 (SpecUpsert)
\* C7: an upsertIssue call leaves every optional field that was set non-null:
\* a null (or omitted) argument keeps the stored value, a non-null argument
\* replaces it, and `state` is always the state passed.
C7_MergeOnNull ==
    lastUpsert # NoCall =>
        LET row == getIssue(issues, "i1")
            before == lastUpsert.before
            call == lastUpsert.call
        IN /\ row.state = call.state
           /\ \A f \in OptionalFields :
                /\ before[f] # NULL => row[f] # NULL
                /\ call[f] = NULL => row[f] = before[f]
                /\ call[f] # NULL => row[f] = call[f]
\* upsert(id, org, X, null, "s2") on a row with repoPath and another session
C7_Witness ==
    /\ lastUpsert.before.repoPath = "/work/a"
    /\ lastUpsert.before.agentSessionId = "s1"
    /\ lastUpsert.before.state = "planning"
    /\ lastUpsert.call = Call("org1", "awaiting_approval", NULL, "s2", NULL, NULL)
    /\ getIssue(issues, "i1").repoPath = "/work/a"
    /\ getIssue(issues, "i1").agentSessionId = "s2"
    /\ getIssue(issues, "i1").state = "awaiting_approval"

\* ---- C8 (SpecUpsert)
Stored(row) == <<row.state, row.repoPath, row.agentSessionId, row.planCommentId, row.prUrl>>
Commute(row, a, b) ==
    Stored(UpsertRow(UpsertRow(row, a), b)) = Stored(UpsertRow(UpsertRow(row, b), a))
Compatible(a, b) ==
    /\ a.state = b.state
    /\ \A f \in OptionalFields : a[f] = NULL \/ b[f] = NULL \/ a[f] = b[f]
\* C8 as stated: any two upsertIssue calls on the same issue (here the call
\* just made and any other call b, from the row the call found) give the same
\* stored record (state and the four optional fields) in either order.
C8_Commutative ==
    lastUpsert # NoCall =>
        \A b \in UpsertCalls : Commute(lastUpsert.before, lastUpsert.call, b)
\* C8 as amended: two upsertIssue calls that pass the same state and, for each
\* optional field, equal values or at least one null, give the same stored
\* record in either order.
C8_CommutativeWhenCompatible ==
    lastUpsert # NoCall =>
        \A b \in UpsertCalls :
            Compatible(lastUpsert.call, b) =>
                Commute(lastUpsert.before, lastUpsert.call, b)
\* the last call and a different, compatible call that both change the row
C8_Witness ==
    /\ lastUpsert.before.state = "planning"
    /\ lastUpsert.before.repoPath = NULL
    /\ lastUpsert.before.planCommentId = NULL
    /\ lastUpsert.call = Call("org1", "awaiting_approval", "/work/a", NULL, NULL, NULL)
    /\ LET b == Call("org1", "awaiting_approval", NULL, NULL, "c1", NULL)
       IN /\ Compatible(lastUpsert.call, b)
          /\ UpsertRow(getIssue(issues, "i1"), b) # getIssue(issues, "i1")
          /\ UpsertRow(getIssue(issues, "i1"), b)
               = UpsertRow(UpsertRow(lastUpsert.before, b), lastUpsert.call)

\* C10: re-running Implementation on a plan in which some steps are already
\* marked done invokes the agent in write mode only for steps that are pending
\* in the plan document at that moment, always for the lowest-numbered one, so
\* in ascending order and at most once each; when the step loop has finished,
\* no step of the document is pending and every step is either one that was
\* done when the job read the plan or one the agent was run for, exactly once.
C10_Marked(doc, marker) ==
    {n \in 1..MaxSteps + 1 :
        \E l \in 1..Len(doc) :
            /\ Len(doc[l]) >= 5
            /\ doc[l][1] = marker
            /\ doc[l][2] = NumberToString(n)}
C10_Runs ==
    LET w == SelectSeq(agentRuns, LAMBDA r : r.job = 1 /\ r.mode = "write")
    IN [k \in 1..Len(w) |-> w[k].step]
C10_Ascending ==
    \A a, b \in 1..Len(C10_Runs) : a < b => C10_Runs[a] < C10_Runs[b]
C10_LoopFinished ==
    /\ Len(jobs) >= 1
    /\ jobs[1].kind = "implementation"
    /\ jobs[1].pc \in {"createPullRequest", "updateStatusInReview", "postPrReady",
                       "upsertImplemented"}
C10_AllRun ==
    C10_LoopFinished =>
        /\ C10_Marked(comments[1], PEND) = {}
        /\ \A n \in 1..MaxSteps + 1 :
             n \in C10_Marked(comments[1], DONE) =>
                 (\E k \in 1..Len(jobs[1].checked) : jobs[1].checked[k].stepNumber = n)
                     # (\E k \in 1..Len(C10_Runs) : C10_Runs[k] = n)
C10_InvokesFirstPending ==
    agentRuns' # agentRuns =>
        LET n == agentRuns'[Len(agentRuns')].step
        IN /\ n \in C10_Marked(comments[1], PEND)
           /\ \A m \in C10_Marked(comments[1], PEND) : n <= m
C10_ResumesFromFirstPending ==
    [](C10_Ascending /\ C10_AllRun) /\ [][C10_InvokesFirstPending]_vars
C10_Witness ==
    /\ comments[1] = PlanDoc(3, [j \in 1..3 |-> DONE])
    /\ Len(jobs[1].checked) = 1
    /\ jobs[1].checked[1].stepNumber = 1
    /\ C10_Runs = <<2, 3>>
    /\ jobs[1].pc = "done"
    /\ ~jobs[1].threw

\* C5: replaying the assignment event never double-runs Planning: once the
\* issue's state has left planning (its record holds a state other than
\* planning), an assignment event leaves the state unchanged, and no planning
\* job invokes the agent in plan mode for an issue whose plan has already been
\* posted (its record holds a plan comment, stored when the state left
\* planning for awaiting_approval).
C5_IsAssignment ==
    /\ events' = events + 1
    /\ Len(jobs') = Len(jobs) + 1
    /\ jobs'[Len(jobs')].kind = "planning"
C5_ReplayLeavesState ==
    (C5_IsAssignment /\ issues["i1"].state \notin {"absent", "planning"})
        => issues'["i1"].state = issues["i1"].state
C5_NoSecondPlanRun ==
    (Len(agentRuns') > Len(agentRuns)
     /\ jobs[agentRuns'[Len(agentRuns')].job].kind = "planning")
        => issues["i1"].planCommentId = NULL
C5_ReplayNeverRerunsPlanning ==
    [][C5_ReplayLeavesState /\ C5_NoSecondPlanRun]_vars

\* C6: a step of the webhook dispatcher (an event is handled) never changes
\* the state of an existing Issue Record.
C6_DispatcherStep == events' = events + 1
C6_DispatcherNeverWritesState ==
    [][C6_DispatcherStep =>
          \A i \in Issues :
              issues[i] # NoRecord => issues'[i].state = issues[i].state]_vars

\* C9: no two phase jobs of the same issue are at work at the same time: of the
\* jobs that have passed their state guard and not yet returned, at most one
\* belongs to each issue.
C9_AtWork(t) ==
    /\ jobs[t].kind \in {"planning", "clarification", "implementation"}
    /\ jobs[t].pc \notin {"queued", "getIssue", "done", "failed"}
C9_OnePhaseJobPerIssue ==
    \A t1, t2 \in 1..Len(jobs) :
        (t1 # t2 /\ C9_AtWork(t1) /\ C9_AtWork(t2)) => jobs[t1].issue # jobs[t2].issue

\* C11: when Implementation resumes a partly completed plan (some steps were
\* done when the job read the document), the summary of the pull request it
\* opens holds the text of every step line of the plan document, the done
\* ones included.
C11_StepTexts(doc) ==
    {SubSeq(doc[l], 5, Len(doc[l])) :
        l \in {k \in 1..Len(doc) : Len(doc[k]) >= 5 /\ doc[k][1] \in {PEND, DONE}}}
C11_SummaryHasEveryStep ==
    \A p \in 1..Len(pulls) :
        Len(jobs[pulls[p].job].checked) > 0 =>
            \A text \in C11_StepTexts(comments[1]) :
                \E k \in 1..Len(pulls[p].summary) : pulls[p].summary[k] = text

\* C12: plan parse/mark round trip: for a document whose steps 1..k are all
\* pending, once the steps 1..k have been marked done one after another,
\* parsePlanSteps returns the empty list and parseCheckedSteps returns the k
\* steps in the original order with the original numbers and texts.
C12_AllMarked == events = Len(parsePlanSteps(comments[1]))
C12_RoundTrip ==
    C12_AllMarked =>
        /\ parsePlanSteps(comments[2]) = <<>>
        /\ parseCheckedSteps(comments[2]) = parsePlanSteps(comments[1])

\* C13: an Implementation job that has opened its pull request and returned
\* has left the issue in state reviewing and has enqueued the Self-Review job
\* (runCodeReviewJob), and an issue is in state implemented only when a
\* Self-Review job of that issue has finished.
C13_Finished(t) ==
    /\ jobs[t].kind = "implementation"
    /\ jobs[t].pc = "done"
    /\ ~jobs[t].threw
    /\ \E p \in 1..Len(pulls) : pulls[p].job = t
C13_ReviewJobs(i) ==
    {t \in 1..Len(jobs) : jobs[t].kind = "codeReview" /\ jobs[t].issue = i}
C13_HandsOverToSelfReview ==
    /\ \A t \in 1..Len(jobs) :
         C13_Finished(t) =>
             /\ issues[jobs[t].issue].state \in {"reviewing", "implemented"}
             /\ \E r \in C13_ReviewJobs(jobs[t].issue) : r > t
    /\ \A i \in Issues :
         issues[i].state = "implemented" =>
             \E r \in C13_ReviewJobs(i) : jobs[r].pc = "done"

\* C14: implemented is terminal: no step, of the dispatcher or of a phase
\* job, changes the state of an issue whose state is implemented.
C14_ImplementedIsTerminal ==
    [][\A i \in Issues :
          issues[i].state = "implemented" => issues'[i].state = "implemented"]_vars

\* C15: a Clarification job whose follow-up is an approval ("LGTM") and that
\* found the issue in awaiting_clarification or awaiting_approval never
\* invokes the agent; the only change it makes to the Issue Record is the one
\* step that sets the state to in_progress and adds the Implementation job to
\* the queue; and when it has returned without an error, that Implementation
\* job is on the queue.
C15_Approving(js, t) ==
    /\ js[t].kind = "clarification"
    /\ js[t].msg = <<"LGTM">>
C15_Stepped(t) ==
    /\ t \in 1..Len(jobs)
    /\ jobs[t].pc \notin {"queued", "done"}
    /\ jobs'[t] # jobs[t]
C15_ApprovalStep ==
    \A t \in 1..Len(jobs) :
        (C15_Approving(jobs, t) /\ C15_Stepped(t)) =>
            /\ agentRuns' = agentRuns
            /\ issues' # issues =>
                 /\ jobs[t].pc = "upsertInProgress"
                 /\ issues'[jobs[t].issue].state = "in_progress"
                 /\ Len(jobs') = Len(jobs) + 1
                 /\ jobs'[Len(jobs')].kind = "implementation"
                 /\ jobs'[Len(jobs')].issue = jobs[t].issue
C15_Approved(t) ==
    /\ C15_Approving(jobs, t)
    /\ jobs[t].pc = "done"
    /\ jobs[t].sess # NULL
    /\ ~jobs[t].threw
C15_ImplementationEnqueued ==
    \A t \in 1..Len(jobs) :
        C15_Approved(t) =>
            /\ \E r \in (t + 1)..Len(jobs) :
                 jobs[r].kind = "implementation" /\ jobs[r].issue = jobs[t].issue
            /\ \A r \in 1..Len(agentRuns) : agentRuns[r].job # t
C15_ApprovalStartsImplementation ==
    []C15_ImplementationEnqueued /\ [][C15_ApprovalStep]_vars
\* approved while awaiting clarification: no plan was ever posted
C15_Witness ==
    /\ \E t \in 1..Len(jobs) : C15_Approved(t)
    /\ issues["i1"].state = "in_progress"
    /\ issues["i1"].planCommentId = NULL
C15_WitnessAwaitingApproval ==
    /\ \E t \in 1..Len(jobs) : C15_Approved(t)
    /\ issues["i1"].state = "in_progress"
    /\ issues["i1"].planCommentId # NULL

\* C16: a Clarification job that finds no record for its issue, or a record
\* whose state is neither awaiting_clarification nor awaiting_approval,
\* returns at once (or ends there because the read failed): that step changes
\* no Issue Record, invokes no agent, touches no checkout or branch, posts
\* nothing and adds no job to the queue.
C16_Ignores(t) ==
    /\ jobs[t].kind = "clarification"
    /\ jobs[t].pc = "getIssue"
    /\ issues[jobs[t].issue].state
           \notin {"awaiting_clarification", "awaiting_approval"}
C16_IgnoredStep ==
    \A t \in 1..Len(jobs) :
        (C16_Ignores(t) /\ jobs'[t] # jobs[t]) =>
            /\ jobs'[t] \in {[jobs[t] EXCEPT !.pc = "done"],
                            [jobs[t] EXCEPT !.pc = "done", !.threw = TRUE]}
            /\ Len(jobs') = Len(jobs)
            /\ UNCHANGED <<issues, agentRuns, comments, branches, pulls>>
C16_FollowUpIgnored == [][C16_IgnoredStep]_vars
\* a follow-up was ignored for an issue in progress
C16_Witness ==
    \E t \in 1..Len(jobs) :
        /\ jobs[t].kind = "clarification"
        /\ jobs[t].pc = "done"
        /\ jobs[t].sess = NULL
        /\ ~jobs[t].threw
        /\ jobs[t].posted = {}
        /\ issues[jobs[t].issue].state = "in_progress"
        /\ Len(agentRuns) = 0

\* C17: a Clarification job whose follow-up is not an approval ("use redis")
\* and that found the issue in a waiting state invokes the agent in plan mode
\* once, when it sets the state to awaiting_clarification; if the agent's
\* output needs clarification, the job's last write leaves the state
\* awaiting_clarification, otherwise it posts the new plan document as a
\* comment and its last write sets the state to awaiting_approval and
\* planCommentId to that comment; the job writes the Issue Record in no other
\* step.
C17_Replanning(t) ==
    /\ jobs[t].kind = "clarification"
    /\ jobs[t].msg = <<"use", "redis">>
C17_ReplanStep ==
    \A t \in 1..Len(jobs) :
        (C17_Replanning(t) /\ C15_Stepped(t) /\ ~jobs'[t].threw) =>
            LET i == jobs[t].issue
                pc == jobs[t].pc
            IN /\ (pc = "upsertClarifying")
                    = (agentRuns' = Append(agentRuns, [job |-> t, mode |-> "plan", step |-> 0]))
               /\ agentRuns' # agentRuns => pc = "upsertClarifying"
               /\ pc = "upsertClarifying" => issues'[i].state = "awaiting_clarification"
               /\ pc = "upsertAwaitingClarification" =>
                    /\ jobs[t].needsClarification
                    /\ issues'[i].state = "awaiting_clarification"
                    /\ jobs'[t].pc = "done"
               /\ pc = "upsertAwaitingApproval" =>
                    /\ ~jobs[t].needsClarification
                    /\ issues'[i].state = "awaiting_approval"
                    /\ issues'[i].planCommentId = jobs[t].plan
                    /\ jobs[t].plan # NULL
                    /\ comments[CommentIndex(jobs[t].plan)] = jobs[t].body
               /\ pc \notin {"upsertClarifying", "upsertAwaitingClarification",
                             "upsertAwaitingApproval"} => issues' = issues
               /\ pc = "runPlanMode" /\ jobs'[t].pc # "postPlanFailed" =>
                    jobs'[t].pc = IF jobs'[t].needsClarification
                                  THEN "postDraft" ELSE "postPlanComment"
C17_NonApprovalReplans == [][C17_ReplanStep]_vars
\* a second plan was posted after the follow-up and is the stored one
C17_Witness ==
    \E t \in 1..Len(jobs) :
        /\ C17_Replanning(t)
        /\ jobs[t].pc = "done"
        /\ ~jobs[t].threw
        /\ "postPlanActivity" \in jobs[t].posted
        /\ issues[jobs[t].issue].state = "awaiting_approval"
        /\ issues[jobs[t].issue].planCommentId = jobs[t].plan
        /\ Len(comments) = 2
        /\ jobs[t].plan = CommentId(2)

\* C18: a Planning job that runs the agent and meets no error ends in one of
\* two ways: the agent's output needs clarification, the draft is posted and
\* the job's last write sets the state to awaiting_clarification; or it does
\* not, the plan document is posted as a comment and the job's last write
\* sets the state to awaiting_approval and planCommentId to that comment.
\* Before that the job writes only `planning`.
C18_Planning(t) == jobs[t].kind = "planning"
C18_PlanningStep ==
    \A t \in 1..Len(jobs) :
        (C18_Planning(t) /\ C15_Stepped(t) /\ ~jobs'[t].threw) =>
            LET i == jobs[t].issue
                pc == jobs[t].pc
            IN /\ pc = "upsertPlanning" => issues'[i].state = "planning"
               /\ pc = "upsertAwaitingClarification" =>
                    /\ jobs[t].needsClarification
                    /\ "postDraft" \in jobs[t].posted
                    /\ issues'[i].state = "awaiting_clarification"
                    /\ jobs'[t].pc = "done"
               /\ pc = "upsertAwaitingApproval" =>
                    /\ ~jobs[t].needsClarification
                    /\ issues'[i].state = "awaiting_approval"
                    /\ jobs[t].plan # NULL
                    /\ issues'[i].planCommentId = jobs[t].plan
                    /\ comments[CommentIndex(jobs[t].plan)] = jobs[t].body
               /\ pc \notin {"upsertPlanning", "upsertAwaitingClarification",
                             "upsertAwaitingApproval"} => issues' = issues
C18_Ended(t) ==
    /\ C18_Planning(t)
    /\ jobs[t].pc = "done"
    /\ ~jobs[t].threw
    /\ \E r \in 1..Len(agentRuns) : agentRuns[r].job = t
    /\ "postPlanFailed" \notin jobs[t].posted
C18_ExactlyOneEnding ==
    \A t \in 1..Len(jobs) :
        C18_Ended(t) =>
            /\ ("postDraft" \in jobs[t].posted) # ("postPlanActivity" \in jobs[t].posted)
            /\ ("postDraft" \in jobs[t].posted) = jobs[t].needsClarification
            /\ ("postPlanActivity" \in jobs[t].posted) = (jobs[t].plan # NULL)
C18_PlanningEndsWaiting == []C18_ExactlyOneEnding /\ [][C18_PlanningStep]_vars
\* planning ended with the plan posted and stored, waiting for approval
C18_Witness ==
    \E t \in 1..Len(jobs) :
        /\ C18_Ended(t)
        /\ ~jobs[t].needsClarification
        /\ issues[jobs[t].issue].state = "awaiting_approval"
        /\ issues[jobs[t].issue].planCommentId = jobs[t].plan
        /\ comments[CommentIndex(jobs[t].plan)] = jobs[t].body
        /\ Len(parsePlanSteps(jobs[t].body)) = MaxPlanSteps

\* C19: when ensureRepoCheckedOut fails in a Planning job, the job posts the
\* diagnostic and returns: from the failure on it changes no Issue Record and
\* never invokes the agent, and it has not invoked the agent before; when it
\* is the only job, the issue's state is still planning when it has returned.
C19_CheckoutFailed(t) ==
    /\ jobs[t].kind = "planning"
    /\ \/ jobs[t].pc = "postCheckoutFailed"
       \/ "postCheckoutFailed" \in jobs[t].posted
C19_NoAgentRun ==
    \A t \in 1..Len(jobs) :
        C19_CheckoutFailed(t) =>
            /\ \A r \in 1..Len(agentRuns) : agentRuns[r].job # t
            /\ jobs[t].pc \in {"postCheckoutFailed", "done"}
            /\ (Len(jobs) = 1 /\ events = 1) => issues[jobs[t].issue].state = "planning"
C19_FailureStep ==
    \A t \in 1..Len(jobs) :
        /\ (C19_CheckoutFailed(t) /\ C15_Stepped(t)) =>
              /\ issues' = issues
              /\ agentRuns' = agentRuns
              /\ jobs'[t].pc = "done"
              /\ ~jobs'[t].threw => "postCheckoutFailed" \in jobs'[t].posted
        /\ (t <= Len(jobs') /\ jobs[t].kind = "planning" /\ jobs[t].pc = "checkout"
            /\ jobs'[t].pc = "postCheckoutFailed") =>
              /\ issues' = issues
              /\ agentRuns' = agentRuns
C19_CheckoutFailureStaysPlanning == []C19_NoAgentRun /\ [][C19_FailureStep]_vars
\* the only job has posted the diagnostic and returned; the state is planning
C19_Witness ==
    /\ Len(jobs) = 1
    /\ events = 1
    /\ C19_CheckoutFailed(1)
    /\ jobs[1].pc = "done"
    /\ ~jobs[1].threw
    /\ issues["i1"].state = "planning"
    /\ agentRuns = <<>>

\* C20: when the plan document has no pending and no done step line, the
\* Implementation job never gets past reading it: it posts the "no unchecked
\* steps" message and returns, without a checkout, a branch, an agent run or
\* a pull request, and no step changes the Issue Record, the branches or the
\* plan comment.
C20_EmptyPlan ==
    /\ Len(comments) = 1
    /\ \A l \in 1..Len(comments[1]) :
         comments[1][l] = <<>> \/ comments[1][l][1] \notin {PEND, DONE}
C20_Halted ==
    C20_EmptyPlan =>
        /\ jobs[1].pc \in {"getIssue", "fetchIssue", "fetchComment", "postNoSteps", "done"}
        /\ agentRuns = <<>>
        /\ pulls = <<>>
        /\ issues["i1"].state = "in_progress"
        /\ (jobs[1].pc = "done" /\ ~jobs[1].threw) => jobs[1].posted = {"noSteps"}
C20_HaltStep ==
    C20_EmptyPlan => UNCHANGED <<issues, branches, comments, pulls, agentRuns>>
C20_EmptyPlanHalts == []C20_Halted /\ [][C20_HaltStep]_vars
\* the job has read an empty plan, posted the message and returned
C20_Witness ==
    /\ C20_EmptyPlan
    /\ jobs[1].pc = "done"
    /\ ~jobs[1].threw
    /\ jobs[1].posted = {"noSteps"}
    /\ branches = {}
    /\ issues["i1"].state = "in_progress"

\* C21: when the plan document has no pending step and at least one done
\* step, Implementation never runs the agent, a pull request it opens has the
\* done steps' texts as its summary, and the job goes on towards the pull
\* request once updateIssueStatus has resolved (no call failing), whether
\* createBranch created the feature branch or found it.
C21_AllDone ==
    /\ Len(comments) = 1
    /\ parsePlanSteps(comments[1]) = <<>>
    /\ parseCheckedSteps(comments[1]) # <<>>
C21_DoneTexts ==
    [k \in 1..Len(parseCheckedSteps(comments[1])) |-> parseCheckedSteps(comments[1])[k].text]
C21_NoAgentDoneSummary ==
    C21_AllDone =>
        /\ agentRuns = <<>>
        /\ \A p \in 1..Len(pulls) : pulls[p].summary = C21_DoneTexts
C21_GoesOn ==
    (C21_AllDone /\ ImplUpdateStatus(1)) => jobs'[1].pc = "postBranch"
C21_AllDoneSkipsToPullRequest == []C21_NoAgentDoneSummary /\ [][C21_GoesOn]_vars

\* C22: a phase job that reads a row lacking a field it requires
\* (agentSessionId for Planning, Clarification, Implementation and
\* Self-Review; planCommentId for Implementation; repoPath or prUrl for
\* Self-Review) ends in the step that read the row: it goes on to no further
\* await, invokes no agent, touches no branch, comment or pull request, posts
\* nothing, adds no job, and leaves every Issue Record as it was.
C22_Missing(t) ==
    LET record == issues[jobs[t].issue]
    IN /\ jobs[t].pc = "getIssue"
       /\ \/ jobs[t].kind \in PhaseKinds /\ record.agentSessionId = NULL
          \/ jobs[t].kind = "implementation" /\ record.planCommentId = NULL
          \/ jobs[t].kind = "codeReview" /\ record.repoPath = NULL
          \/ jobs[t].kind = "codeReview" /\ record.prUrl = NULL
C22_AbortStep ==
    \A t \in 1..Len(jobs) :
        (C22_Missing(t) /\ jobs'[t] # jobs[t]) =>
            /\ jobs'[t] \in {[jobs[t] EXCEPT !.pc = "done"],
                            [jobs[t] EXCEPT !.pc = "done", !.threw = TRUE]}
            /\ Len(jobs') = Len(jobs)
            /\ UNCHANGED <<issues, agentRuns, comments, branches, pulls>>
C22_MissingFieldAborts == [][C22_AbortStep]_vars
\* an Implementation job has ended on an approved issue without a plan handle
C22_Witness ==
    /\ jobs[1].kind = "implementation"
    /\ jobs[1].pc = "done"
    /\ jobs[1].threw
    /\ jobs[1].sess = NULL
    /\ issues["i1"].state = "in_progress"
    /\ issues["i1"].agentSessionId = "s1"
    /\ issues["i1"].planCommentId = NULL
    /\ agentRuns = <<>>
    /\ pulls = <<>>

\* C23: when a call to a collaborator (checkout, agent, Linear, GitHub, git)
\* has failed inside a phase job that had passed its guards, the job has
\* posted a message about the failure to the agent session by the time it
\* ends, and the issue's state is then the state the phase started from.
C23_FailureMessages == {"postCheckoutFailed", "postPlanFailed"}
C23_CallFailed(t) ==
    /\ jobs[t].kind \in PhaseKinds
    /\ jobs[t].pc = "done"
    /\ jobs[t].sess # NULL
    /\ \/ jobs[t].threw /\ ~(jobs[t].kind = "implementation" /\ jobs[t].steps = <<>>)
       \/ jobs[t].posted \cap C23_FailureMessages # {}
C23_FailureReportedStateKept ==
    C23_CallFailed(1) =>
        /\ jobs[1].posted \cap C23_FailureMessages # {}
        /\ issues["i1"].state = lastUpsert.before.state
\* runAgentMode rejected in the step loop: nothing was posted about it
C23_UnreportedFailure ==
    /\ jobs[1].kind = "implementation"
    /\ jobs[1].pc = "done"
    /\ jobs[1].threw
    /\ Len(agentRuns) = 1
    /\ jobs[1].posted = {}
\* runPlanMode rejected in a Clarification job that started in
\* awaiting_approval: reported, but the state is awaiting_clarification
C23_StateMoved ==
    /\ jobs[1].kind = "clarification"
    /\ jobs[1].pc = "done"
    /\ jobs[1].posted = {"postPlanFailed"}
    /\ lastUpsert.before.state = "awaiting_approval"
    /\ issues["i1"].state = "awaiting_clarification"

\* C24: no task of a phase job handed to the Work Queue rejects: whichever
\* call fails in whichever phase, the task settles as resolved ("done"),
\* never as rejected ("failed").
C24_NoTaskRejects ==
    \A t \in 1..Len(jobs) : jobs[t].kind \in PhaseKinds => jobs[t].pc # "failed"
\* a call failed in an Implementation job after its guards, and the task has
\* resolved
C24_Witness ==
    /\ jobs[1].kind = "implementation"
    /\ jobs[1].threw
    /\ jobs[1].sess # NULL
    /\ Len(agentRuns) = 1
    /\ jobs[1].pc = "done"
    /\ queue.pending = 0

\* C25: a PR trigger that arrives while a job holds the lock of the same PR
\* key is not left waiting: its job is on the busy path at once; and a job on
\* the busy path ends with its next step, normally also when posting the
\* busy reply fails, without a checkout, an agent run or a commit.
C25_Arrives(t) ==
    /\ Len(jobs') = Len(jobs) + 1
    /\ t = Len(jobs')
    /\ jobs'[t].kind = "prComment"
    /\ Holders(jobs, prKey(jobs'[t].pr)) # {}
C25_BusyOnArrival ==
    \A t \in 1..Len(jobs') : C25_Arrives(t) => jobs'[t].pc = "busyReply"
C25_BusyReturns ==
    \A t \in 1..Len(jobs) :
        (jobs[t].kind = "prComment" /\ jobs[t].pc = "busyReply" /\ jobs'[t] # jobs[t]) =>
            /\ jobs'[t].pc = "done"
            /\ ~jobs'[t].threw
            /\ UNCHANGED <<agentRuns, branches, issues>>
C25_TriggerWhileBusy == [][C25_BusyOnArrival /\ C25_BusyReturns]_vars

\* C26: at every point of the Implementation job, at most one step whose
\* agent run and commit have completed is still marked pending in the plan
\* comment as persisted, so that a re-run, which runs the steps the persisted
\* comment marks pending, re-executes at most one completed step.
C26_Completed ==
    LET job == jobs[1]
        upto == IF job.pc \in {"updateComment", "postStepDone"} THEN job.i ELSE job.i - 1
    IN {job.steps[k].stepNumber : k \in 1..Min(upto, Len(job.steps))}
C26_PersistedPending ==
    LET steps == parsePlanSteps(comments[1])
    IN {steps[k].stepNumber : k \in 1..Len(steps)}
C26_AtMostOneUnrecorded ==
    Cardinality(C26_Completed \cap C26_PersistedPending) <= 1

\* C27: tasks begin in the order they were enqueued: a task never has
\* started while a task enqueued before it is still waiting.
C27_StartInEnqueueOrder ==
    \A a, b \in 1..Len(jobs) :
        (a < b /\ jobs[b].pc # "queued") => jobs[a].pc # "queued"
\* with one slot: the first task is over, the second was started from the
\* waiting list, the third and fourth wait in the order of their adds
C27_Witness ==
    /\ queue.concurrency = 1
    /\ Len(jobs) = 4
    /\ jobs[1].pc \in {"done", "failed"}
    /\ jobs[2].pc = "running"
    /\ queue.waiting = <<3, 4>>

\* C28: every webhook request that passes the signature test has its 200
\* response sent in the step in which it arrives, before the event is
\* dispatched and before a job is enqueued for it; and no later step (an
\* await of the handler resolving or failing, a job running or failing)
\* changes a response once it is sent.
C28_Accepted(r) == requests[r].sig = "valid"
C28_Before(trace, a, b) ==
    \A k \in 1..Len(trace) : trace[k] = b => \E j \in 1..(k - 1) : trace[j] = a
C28_AckFirst ==
    \A r \in 1..Len(requests) :
        C28_Accepted(r) =>
            /\ requests[r].status = 200
            /\ C28_Before(requests[r].trace, "respond", "dispatch")
            /\ C28_Before(requests[r].trace, "respond", "enqueue")
            /\ requests[r].job # 0 => requests[r].job \in 1..Len(jobs)
C28_AckStands ==
    \A r \in 1..Len(requests) :
        /\ requests'[r].status = requests[r].status
        /\ Len(SelectSeq(requests'[r].trace, LAMBDA e : e = "respond"))
             = Len(SelectSeq(requests[r].trace, LAMBDA e : e = "respond"))
C28_AcknowledgedBeforeDispatch == []C28_AckFirst /\ [][C28_AckStands]_vars
\* a session-created delivery was answered with 200, its upsert failed in
\* the dispatcher; a second one was answered, and its planning job failed
C28_Witness ==
    /\ Len(requests) = 2
    /\ requests[1].status = 200
    /\ requests[1].error
    /\ requests[1].pc = "closed"
    /\ requests[1].trace = <<"respond", "dispatch">>
    /\ requests[2].status = 200
    /\ requests[2].trace = <<"respond", "dispatch", "enqueue">>
    /\ requests[2].job = 1
    /\ jobs[1].pc = "done"
    /\ jobs[1].threw

\* ---- C29 (SpecDetect)
\* As stated: detectClarificationNeeded returns true exactly when the output
\* has a heading 'Clarifying Questions' or a bare heading 'Questions', or one
\* of its final 20 lines is a numbered list item ending in a question mark.
\* As the function decides: the headings count at levels one to three only,
\* and the final 20 lines are counted after the whitespace at the end of the
\* output, blank lines included, is removed. An output whose only mention is
\* the sentence 'No remaining clarifying questions.' is not a request for
\* clarification.
C29_Words(line) == SelectSeq([k \in 1..Len(line) |-> Lower(line[k])], LAMBDA w : w # " ")
C29_Level(line) == IF line = <<>> THEN 0 ELSE HashCount(line[1])
C29_HeadingText(line) == Tail(C29_Words(line))
C29_ClarifyingHeading(line, levels) ==
    /\ C29_Level(line) \in levels
    /\ Len(C29_HeadingText(line)) >= 2
    /\ SubSeq(C29_HeadingText(line), 1, 2) \in
         {<<"clarifying", "questions">>, <<"clarifying", "question">>}
C29_QuestionsHeading(line, levels) ==
    /\ C29_Level(line) \in levels
    /\ C29_HeadingText(line) \in {<<"questions">>, <<"question">>}
C29_NumberedQuestion(line) ==
    LET w == C29_Words(line)
    IN /\ Len(w) >= 4
       /\ w[1] \in Numerals
       /\ w[2] = "."
       /\ w[Len(w)] = "?"
\* the number of lines up to the last one that is not blank
C29_ContentLines(output) ==
    CHOOSE n \in 0..Len(output) :
        /\ n = 0 \/ C29_Words(output[n]) # <<>>
        /\ \A k \in (n + 1)..Len(output) : C29_Words(output[k]) = <<>>
C29_Decides(output, levels, end) ==
    \/ \E l \in 1..Len(output) : C29_ClarifyingHeading(output[l], levels)
    \/ \E l \in 1..Len(output) : C29_QuestionsHeading(output[l], levels)
    \/ \E l \in 1..end : l > end - 20 /\ C29_NumberedQuestion(output[l])
C29_Sentence == <<"No", " ", "remaining", " ", "clarifying", " ", "questions", ".">>
C29_OnlyTheSentence(output) ==
    /\ \E l \in 1..Len(output) : output[l] = C29_Sentence
    /\ \A l \in 1..Len(output) :
          /\ C29_Level(output[l]) = 0
          /\ ~C29_NumberedQuestion(output[l])
C29_WitnessSentence ==
    /\ comments[1] = <<C29_Sentence>> \o Filler(2)
    /\ Len(agentRuns) = 1
    /\ ~agentRuns[1].needsClarification

\* ---- C30 (SpecReply)
\* isApproval classifies a reply as approval exactly when it contains, in
\* any letter case, a word or phrase of the affirmative set; "approved",
\* "LGTM, ship it" and "yes let's go" are approvals, "not yet, need more
\* info" is not.  The job takes the approval branch exactly for these.
C30_AffirmativeSet ==
    {<<"approved">>, <<"lgtm">>, <<"looks", "good">>, <<"go", "ahead">>, <<"proceed">>,
     <<"yes">>, <<"ok">>, <<"confirmed">>, <<"ship", "it">>, <<"sounds", "good">>,
     <<"approve">>, <<"look", "good">>, <<"start">>, <<"okay">>, <<"confirm">>,
     <<"sound", "good">>}
C30_LowerCase(w) ==
    CASE w = "LGTM" -> "lgtm" [] w = "Okay" -> "okay" [] OTHER -> w
C30_Contains(text, phrase) ==
    \E k \in 1..(Len(text) - Len(phrase) + 1) :
        \A j \in 1..Len(phrase) : C30_LowerCase(text[k + j - 1]) = phrase[j]
C30_Affirmative(text) == \E phrase \in C30_AffirmativeSet : C30_Contains(text, phrase)
C30_Classified(t) == jobs[t].pc \in {"postApproved", "upsertClarifying"}
C30_Examples ==
    [approved |-> <<"approved">>,
     lgtm |-> <<"LGTM", ",", "ship", "it">>,
     yes |-> <<"yes", "let's", "go">>,
     notYet |-> <<"not", "yet", ",", "need", "more", "info">>]
C30_ApprovalIffAffirmativeWord ==
    \A t \in 1..Len(jobs) :
        C30_Classified(t) =>
            /\ (jobs[t].pc = "postApproved") = C30_Affirmative(jobs[t].msg)
            /\ jobs[t].msg \in {C30_Examples.approved, C30_Examples.lgtm, C30_Examples.yes}
                 => jobs[t].pc = "postApproved"
            /\ jobs[t].msg = C30_Examples.notYet => jobs[t].pc = "upsertClarifying"
\* "LGTM, ship it" was taken as the approval
C30_Witness ==
    /\ jobs[1].msg = C30_Examples.lgtm
    /\ jobs[1].pc = "postApproved"
\* "not yet, need more info" was taken as a clarification
C30_WitnessNotYet ==
    /\ jobs[1].msg = C30_Examples.notYet
    /\ jobs[1].pc = "upsertClarifying"

\* ---- C31 (SpecImpl)
\* In every reachable state, an issue whose state is implemented has its
\* prUrl set.
C31_ImplementedHasPrUrl ==
    \A i \in Issues :
        (issues[i] # NoRecord /\ issues[i].state = "implemented")
            => issues[i].prUrl # NULL

\* ---- C32 (Spec)
\* In every reachable state, an issue whose state is in_progress has its
\* planCommentId set, so the Implementation job an approval enqueues never
\* aborts on a missing plan handle.
C32_InProgressHasPlan ==
    \A i \in Issues :
        (issues[i] # NoRecord /\ issues[i].state = "in_progress")
            => issues[i].planCommentId # NULL

\* ---- C33 (Spec)
\* An issue's state only moves forward along planning,
\* awaiting_clarification, awaiting_approval, in_progress, reviewing,
\* implemented, or stays the same: no step of the dispatcher or of a phase
\* job moves a stored record to an earlier state.
C33_Order ==
    <<"planning", "awaiting_clarification", "awaiting_approval", "in_progress",
      "reviewing", "implemented">>
C33_Rank(state) == CHOOSE k \in 1..Len(C33_Order) : C33_Order[k] = state
C33_ForwardStep ==
    \A i \in Issues :
        (issues[i] # NoRecord /\ issues'[i] # NoRecord)
            => C33_Rank(issues'[i].state) >= C33_Rank(issues[i].state)
C33_StateOnlyMovesForward == [][C33_ForwardStep]_vars

\* ---- C34 (SpecPr)
\* Triggers for different PR keys do not interfere at the lock table: an
\* invocation that begins while no other invocation holds its own key takes
\* the key and goes to work, whatever other keys are held; it gets the busy
\* reply only when its own key is held; a key leaves the table only in the
\* step in which the invocation holding it ends, so the release of one key
\* never removes another.
C34_Key(js, t) == prKey(js[t].pr)
C34_Begins(t) ==
    /\ jobs'[t].kind = "prComment"
    /\ jobs'[t].pc \in {"busyReply", "postStarted"}
    /\ (t > Len(jobs) \/ jobs[t].pc = "queued")
C34_BusyOnlyForOwnKey ==
    \A t \in 1..Len(jobs') :
        C34_Begins(t) =>
            (jobs'[t].pc = "busyReply")
                = (\E u \in 1..Len(jobs') :
                      /\ u # t
                      /\ C34_Key(jobs', u) = C34_Key(jobs', t)
                      /\ jobs'[u].pc \in PrHolding)
C34_ReleaseOwnKeyOnly ==
    \A key \in activePrs \ activePrs' :
        \E t \in 1..Len(jobs) :
            /\ C34_Key(jobs, t) = key
            /\ jobs[t].pc \in PrHolding
            /\ jobs'[t].pc = "done"
C34_HeldStaysHeld ==
    \A t \in 1..Len(jobs) :
        (jobs[t].pc \in PrHolding /\ jobs'[t].pc \in PrHolding)
            => C34_Key(jobs, t) \in activePrs'
C34_KeysDoNotInterfere ==
    [][C34_BusyOnlyForOwnKey /\ C34_ReleaseOwnKeyOnly /\ C34_HeldStaysHeld]_vars
\* the job for key A has ended and released A while the job for key B, begun
\* while A was held, is at work and B is still in the table; the third
\* trigger, for A, had found A held
C34_Witness ==
    /\ Len(jobs) = 3
    /\ jobs[1].pr # jobs[2].pr
    /\ jobs[3].pr = jobs[1].pr
    /\ jobs[1].pc = "done"
    /\ jobs[2].pc = "runAgentMode"
    /\ jobs[3].pc = "busyReply"
    /\ activePrs = {prKey(jobs[2].pr)}

\* ---- C35 (SpecMark)
\* Marking step N done changes only the checkbox marker of step N: the line
\* of step N goes from pending to done with its number and text unchanged,
\* and every other step keeps its status, number and text.
C35_Step(line) ==
    IF MatchesStep(line, PEND) \/ MatchesStep(line, DONE)
    THEN [status |-> line[1], stepNumber |-> parseInt(line[2]),
          text |-> Trim(SubSeq(line, 5, Len(line)))]
    ELSE [status |-> "none"]
C35_Marked ==
    LET steps == parsePlanSteps(comments[1])
    IN steps[events + 1].stepNumber
C35_OnlyTheMarkerOfStepN ==
    events' = events + 1 =>
        /\ Len(comments'[2]) = Len(comments[2])
        /\ \A l \in 1..Len(comments[2]) :
              LET before == C35_Step(comments[2][l])
                  after == C35_Step(comments'[2][l])
              IN IF before.status = PEND /\ before.stepNumber = C35_Marked
                 THEN after = [before EXCEPT !.status = DONE]
                 ELSE after = before
C35_MarkChangesOnlyItsStep == [][C35_OnlyTheMarkerOfStepN]_vars

\* ---- C36 (SpecPr)
\* An invocation of runPrCommentJob that takes the busy path leaves the lock
\* table as it is: beginning it adds no key, and the step that ends it (the
\* busy reply posted, or failed and caught) removes no key, so the invocation
\* in flight for that key still holds the lock.  A key that enters the table
\* in the ending step is the key of a task the queue starts in the freed slot.
C36_BeginsBusy(t) ==
    /\ jobs'[t].kind = "prComment"
    /\ jobs'[t].pc = "busyReply"
    /\ (t > Len(jobs) \/ jobs[t].pc = "queued")
C36_EndsBusy(t) ==
    /\ jobs[t].kind = "prComment"
    /\ jobs[t].pc = "busyReply"
    /\ jobs'[t].pc = "done"
C36_StartedInSlot(key) ==
    \E u \in 1..Len(jobs) :
        /\ jobs[u].pc = "queued"
        /\ jobs'[u].pc = "postStarted"
        /\ prKey(jobs[u].pr) = key
C36_BusyStep ==
    /\ \A t \in 1..Len(jobs') :
          C36_BeginsBusy(t) =>
              /\ prKey(jobs'[t].pr) \in activePrs'
              /\ Holders(jobs', prKey(jobs'[t].pr)) # {}
              /\ t \notin Holders(jobs', prKey(jobs'[t].pr))
    /\ \A t \in 1..Len(jobs) :
          C36_EndsBusy(t) =>
              /\ activePrs \subseteq activePrs'
              /\ \A key \in activePrs' \ activePrs : C36_StartedInSlot(key)
              /\ Holders(jobs, prKey(jobs[t].pr)) \subseteq Holders(jobs', prKey(jobs[t].pr))
C36_BusyPathKeepsLockTable == [][C36_BusyStep]_vars
\* the busy reply of the second trigger failed and the invocation is over;
\* the first invocation is still at work and holds the key
C36_Witness ==
    /\ Len(jobs) >= 2
    /\ jobs[2].pr = jobs[1].pr
    /\ jobs[1].pc = "runAgentMode"
    /\ jobs[2].pc = "done"
    /\ jobs[2].replyFailed
    /\ ~jobs[2].threw
    /\ activePrs = {prKey(jobs[1].pr)}

\* ---- C37 (SpecPlanning)
\* In every reachable state, an issue whose state is awaiting_approval has a
\* planCommentId, and once the planning and re-planning rounds have ended,
\* none of them with a failed call, the record holds the handle of the plan
\* document persisted last.
C37_HasPlan ==
    \A i \in Issues :
        (issues[i] # NoRecord /\ issues[i].state = "awaiting_approval")
            => issues[i].planCommentId # NULL
C37_RoundsEnded ==
    \A t \in 1..Len(jobs) :
        jobs[t].kind \in PlanKinds => (jobs[t].pc = "done" /\ ~jobs[t].threw)
C37_HoldsLatest ==
    \A i \in Issues :
        (issues[i] # NoRecord /\ issues[i].state = "awaiting_approval" /\ C37_RoundsEnded)
            => issues[i].planCommentId = CommentId(Len(comments))
C37_AwaitingApprovalHoldsLatestPlan == C37_HasPlan /\ C37_HoldsLatest

\* ---- C38 (SpecPlanning)
\* One approval enqueues the Implementation job at most once.  With at most
\* MaxDeliveries deliveries, no record can be approved, planned again and
\* approved again, so every approval delivered is a delivery of the same
\* one: at most one Implementation job is ever enqueued for an issue, however
\* the Clarification jobs interleave.
C38_ImplementationJobs(i) ==
    {t \in 1..Len(jobs) : jobs[t].kind = "implementation" /\ jobs[t].issue = i}
C38_ApprovalEnqueuesOnce ==
    \A i \in Issues : Cardinality(C38_ImplementationJobs(i)) <= 1

\* ---- C39 (SpecChainFair)
\* Chained enqueues do not deadlock the queue, with one slot as with two:
\* the step in which a Clarification job adds the Implementation job to the
\* queue is the step in which the Clarification job returns (it does not
\* wait for the job it added), and every Implementation job added is
\* eventually started.
C39_Added(t) ==
    /\ t = Len(jobs) + 1
    /\ t = Len(jobs')
    /\ jobs'[t].kind = "implementation"
C39_ReturnsOnAdd ==
    \A t \in 1..MaxJobs :
        C39_Added(t) =>
            \E c \in 1..Len(jobs) :
                /\ jobs[c].kind = "clarification"
                /\ jobs[c].pc = "upsertInProgress"
                /\ jobs'[c].pc = "done"
C39_Waiting(t) ==
    t <= Len(jobs) /\ jobs[t].kind = "implementation" /\ jobs[t].pc = "queued"
C39_Started(t) ==
    t <= Len(jobs) /\ jobs[t].kind = "implementation" /\ jobs[t].pc # "queued"
C39_ChainedEnqueueStarts ==
    /\ [][C39_ReturnsOnAdd]_vars
    /\ \A t \in 1..MaxJobs : C39_Waiting(t) ~> C39_Started(t)
\* one slot: the approval's job has returned, the Implementation job it
\* added is running, and the follow-up delivered before the approval ran
\* first
C39_Witness ==
    /\ env = "1"
    /\ Len(jobs) = 3
    /\ jobs[1].kind = "clarification" /\ jobs[1].pc = "done"
    /\ jobs[2].kind = "clarification" /\ jobs[2].pc = "done"
    /\ jobs[3].kind = "implementation" /\ jobs[3].pc = "runAgentMode"
    /\ queue.pending = 1
\* one slot: an Implementation job has been added and waits behind a job
\* that is still at work
C39_WitnessWaiting ==
    /\ env = "1"
    /\ \E t \in 1..Len(jobs) : C39_Waiting(t)

============================================================================
